---- MODULE Spec2Model ----
(***************************************************************************)
(* The campaign engine of api-assitantbot: the scheduler scan              *)
(* (workers/campaign_scheduler.py), the dispatcher                         *)
(* (workers/smart_dispatcher.py), the channel sender tasks                 *)
(* (integrations/brevo/*.py, integrations/vapi/voice.py), the voice status *)
(* callback, and the two Redis primitives they share: the sliding-window   *)
(* rate limiter (utils/rate_limiter.py) and the circuit breaker            *)
(* (utils/circuit_breaker.py).                                             *)
(*                                                                         *)
(* Time is an integer number of milliseconds.  Python's time.time() and    *)
(* datetime.utcnow() are both read off the one clock `now`.                *)
(***************************************************************************)
EXTENDS Integers, Sequences, FiniteSets, TLC

VARIABLES
    now,          \* the wall clock
    ticks,        \* how often the clock has advanced (bounds the run)
    target,       \* campaign_targets rows: Targets -> row
    campaign,     \* the campaigns row the targets belong to
    dispatchQ,    \* dispatch_campaign_target tasks in the broker, per target
    sendQ,        \* channel sender tasks in the broker, per target
    sched,        \* the scheduler runs: Schedulers -> [pc, batch, at]
    zset,         \* Redis sorted sets of the rate limiter: key -> set of scores
    breaker,      \* Redis keys of the circuit breaker: name -> keys
    calls,        \* calls created at the voice provider: call id -> target
    processed,    \* idempotency markers of the call-status webhook
    claims,       \* history: dispatch tasks the scheduler enqueued this round
    deferred,     \* history: targets the rate limiter deferred, until handed off again
    last,         \* history: the last step taken and how it ended
    rl,           \* rate-limiter workers (their position inside check_rate_limit)
    allowed_log,  \* history: instants of the check_rate_limit calls that allowed
    cbw,          \* circuit-breaker callers (their position inside call)
    streak,       \* history: the run of consecutive failures of each breaker
    cfg,          \* the arguments the rate-limiter and breaker runs are made with
    marker,       \* Redis keys of the idempotency service: key -> [value, expires]
    idw,          \* webhook requests in progress (their position inside the endpoint)
    handled_log,  \* history: the runs of handle_voice_webhook: [key, at, outcome]
    marked_at,    \* history: the instant of the last mark_processed of each key
    auto,         \* an automation rule, an event and what the engine did with them
    tz,           \* a send window, an instant and what the timezone helper answered
    orphan,       \* targets whose campaign, lead or tenant row is gone: target -> which
    bus,          \* the event bus: the publish calls made and the automation queue
    act           \* a run of _execute_actions: its actions, position and effects

vars == <<now, ticks, target, campaign, dispatchQ, sendQ, sched, zset, breaker,
          calls, processed, claims, deferred, last, rl, allowed_log, cbw, streak, cfg,
          marker, idw, handled_log, marked_at, auto, tz, orphan, bus, act>>

----------------------------------------------------------------------------
(* Bounds of the model *)

NumTargets == 1
NumSchedulers == 2
MaxTicks == 2
MaxAttemptCount == 3
MaxWebhooks == 1
MaxLimit == 2
MaxWindow == 2
MaxRLTicks == 4
MaxAllowed == 4
NumRLWorkers == 2
MaxThreshold == 2
MaxTimeout == 2
MaxCBTicks == 3
MaxFailures == 3
NumCBWorkers == 2
NumIdemWorkers == 2
MaxTTL == 2
MaxIdemTicks == 3
MaxHandled == 3
MaxConditions == 2
MaxDay == 6
NumScanTargets == 2
MaxPublished == 2
MaxActions == 2
MaxExecTicks == 2

Targets == DOMAIN target
Schedulers == 1..NumSchedulers

NULL == -1

Seconds(n) == n * 1000
Minutes(n) == Seconds(60 * n)

----------------------------------------------------------------------------
(* utils/rate_limiter.py: RateLimiter over a Redis sorted set.              *)
(* The sorted set maps member -> score; check_rate_limit adds the member    *)
(* str(now) with score now, so the set is determined by its scores and two  *)
(* calls that read the same time.time() share one member.  The key's        *)
(* expire(window_seconds) removes only entries the next purge would remove. *)

\* redis.zremrangebyscore(key, lo, hi): drop the members with lo <= score <= hi
zremrangebyscore(z, lo, hi) == {s \in z : ~(lo <= s /\ s <= hi)}

\* redis.zcard(key)
zcard(z) == Cardinality(z)

\* redis.zadd(key, {str(score): score})
zadd(z, score) == z \cup {score}

\* RateLimiter.check_rate_limit run without interruption at instant t:
\* the pair (is_allowed, remaining) and the sorted set it leaves
check_rate_limit(z, t, limit, window_seconds) ==
    LET window_start == t - Seconds(window_seconds)
        purged == zremrangebyscore(z, 0, window_start)
        current_count == zcard(purged)
    IN  IF current_count < limit
        THEN [is_allowed |-> TRUE, remaining |-> limit - current_count - 1,
              zset |-> zadd(purged, t)]
        ELSE [is_allowed |-> FALSE, remaining |-> 0, zset |-> purged]

----------------------------------------------------------------------------
(* utils/circuit_breaker.py: CircuitBreaker over three Redis keys per name. *)
(* A breaker's keys: state ("none" when the key is absent), failures with   *)
(* the instant its TTL ends (the counter is absent from then on), and       *)
(* last_failure (NULL when absent).                                         *)

CLOSED == "closed"
OPEN == "open"
HALF_OPEN == "half_open"

NoKeys == [state |-> "none", failures |-> 0, failures_expire |-> NULL,
           last_failure |-> NULL]

\* redis.get(failures key): the counter, 0 once its TTL has run out
failures_at(b, t) ==
    IF b.failures_expire # NULL /\ t >= b.failures_expire THEN 0 ELSE b.failures

\* CircuitBreaker._set_state
set_state(b, state) == [b EXCEPT !.state = state]

\* get_state without the recovery_timeout test: open turns half_open at once
get_state_no_wait(b, t, recovery_timeout) ==
    IF b.state = "none"
    THEN [state |-> CLOSED, keys |-> b]
    ELSE IF b.state = OPEN /\ b.last_failure # NULL
         THEN [state |-> HALF_OPEN, keys |-> set_state(b, HALF_OPEN)]
         ELSE [state |-> b.state, keys |-> b]

\* get_state that waits one instant too long (> for >=)
get_state_late(b, t, recovery_timeout) ==
    IF b.state = "none"
    THEN [state |-> CLOSED, keys |-> b]
    ELSE IF b.state = OPEN /\ b.last_failure # NULL
            /\ t - b.last_failure > Seconds(recovery_timeout)
         THEN [state |-> HALF_OPEN, keys |-> set_state(b, HALF_OPEN)]
         ELSE [state |-> b.state, keys |-> b]

\* get_state that takes a look at an open breaker for another failure
get_state_counting(b, t, recovery_timeout) ==
    IF b.state = "none"
    THEN [state |-> CLOSED, keys |-> b]
    ELSE IF b.state = OPEN /\ b.last_failure # NULL
            /\ t - b.last_failure >= Seconds(recovery_timeout)
         THEN [state |-> HALF_OPEN, keys |-> set_state(b, HALF_OPEN)]
         ELSE IF b.state = OPEN
         THEN [state |-> OPEN, keys |-> [b EXCEPT !.last_failure = t]]
         ELSE [state |-> b.state, keys |-> b]

\* CircuitBreaker.get_state at instant t: the state reported and the keys left
get_state(b, t, recovery_timeout) ==
    IF b.state = "none"
    THEN [state |-> CLOSED, keys |-> b]
    ELSE IF b.state = OPEN /\ b.last_failure # NULL
            /\ t - b.last_failure >= Seconds(recovery_timeout)
         THEN [state |-> HALF_OPEN, keys |-> set_state(b, HALF_OPEN)]
         ELSE [state |-> b.state, keys |-> b]

\* CircuitBreaker._increment_failures: INCR, then EXPIRE recovery_timeout
increment_failures(b, t, recovery_timeout) ==
    [b EXCEPT !.failures = failures_at(b, t) + 1,
              !.failures_expire = t + Seconds(recovery_timeout)]

\* CircuitBreaker._reset_failures
reset_failures(b) == [b EXCEPT !.failures = 0, !.failures_expire = NULL]

\* record_success that leaves the failure counter
record_success_keeps_count(b) == set_state(b, CLOSED)

\* CircuitBreaker.record_success
record_success(b) == reset_failures(set_state(b, CLOSED))

\* record_failure that trips one failure late (> for >=)
record_failure_late(b, t, failure_threshold, recovery_timeout) ==
    LET counted == increment_failures(b, t, recovery_timeout)
        stamped == [counted EXCEPT !.last_failure = t]
    IN  IF counted.failures > failure_threshold
        THEN set_state(stamped, OPEN)
        ELSE stamped

\* CircuitBreaker.record_failure at instant t
record_failure(b, t, failure_threshold, recovery_timeout) ==
    LET counted == increment_failures(b, t, recovery_timeout)
        stamped == [counted EXCEPT !.last_failure = t]
    IN  IF counted.failures >= failure_threshold
        THEN set_state(stamped, OPEN)
        ELSE stamped

----------------------------------------------------------------------------
(* utils/timezone_helper.py: TimezoneHelper.  A datetime is the number of    *)
(* milliseconds of local civil time since 00:00 of a Monday (day 0).          *)

Hours(n) == Minutes(60 * n)
Days(n) == Hours(24 * n)

\* datetime.weekday(): 0 = Monday .. 6 = Sunday
weekday(t) == (t \div Days(1)) % 7

\* datetime.hour
hour(t) == (t % Days(1)) \div Hours(1)

\* datetime.strftime("%Y-%m-%d"): the date, as the number of its day
strftime_date(t) == t \div Days(1)

\* datetime.replace(hour=h, minute=0, second=0): the microseconds stay
replace_hms(t, h) == Days(t \div Days(1)) + Hours(h) + (t % Seconds(1))

\* is_within_schedule that lets the hour end_hour in (<= for <)
is_within_schedule_closed(current_time, start_hour, end_hour, allowed_days, blackout_dates) ==
    /\ weekday(current_time) \in allowed_days
    /\ start_hour <= hour(current_time) /\ hour(current_time) <= end_hour
    /\ ~(blackout_dates # {} /\ strftime_date(current_time) \in blackout_dates)

\* TimezoneHelper.is_within_schedule
is_within_schedule(current_time, start_hour, end_hour, allowed_days, blackout_dates) ==
    /\ weekday(current_time) \in allowed_days
    /\ start_hour <= hour(current_time) /\ hour(current_time) < end_hour
    /\ ~(blackout_dates # {} /\ strftime_date(current_time) \in blackout_dates)

\* timezone_helper.py line 124: range(14)
HORIZON_DAYS == 14

\* the loop of get_next_available_time with k rounds left.  pytz.timedelta is
\* an attribute the installed pytz may lack (timedelta_ok): the first use
\* then raises AttributeError.
RECURSIVE next_available(_, _, _, _, _, _, _)
next_available(current_time, next_time, k, start_hour, end_hour, allowed_days, timedelta_ok) ==
    IF k = 0
    THEN IF timedelta_ok THEN [raised |-> FALSE, value |-> current_time + Days(1)]
         ELSE [raised |-> TRUE, value |-> NULL]
    ELSE IF weekday(next_time) \in allowed_days /\ hour(next_time) < start_hour
    THEN [raised |-> FALSE, value |-> replace_hms(next_time, start_hour)]
    ELSE IF weekday(next_time) \in allowed_days /\ hour(next_time) < end_hour
    THEN [raised |-> FALSE, value |-> next_time]
    ELSE IF timedelta_ok
    THEN next_available(current_time, replace_hms(next_time + Days(1), start_hour),
                        k - 1, start_hour, end_hour, allowed_days, timedelta_ok)
    ELSE [raised |-> TRUE, value |-> NULL]

\* TimezoneHelper.get_next_available_time
get_next_available_time(current_time, start_hour, end_hour, allowed_days, timedelta_ok) ==
    next_available(current_time, current_time, HORIZON_DAYS, start_hour, end_hour,
                   allowed_days, timedelta_ok)

----------------------------------------------------------------------------
(* The campaign engine: rows, tasks and the scheduler runs.                 *)

\* campaigns.channel values the dispatcher knows, and one it does not
Channels == {"sms", "whatsapp", "email", "voice"}
BrevoChannels == {"sms", "whatsapp", "email"}
UnknownChannel == "push"

\* the channels a campaign of the model is created with: whatsapp and email
\* differ from sms in the name of the sender task only
CampaignChannels == {"sms", "voice", UnknownChannel}

\* how a provider request ends: a response, a timeout (retryable) or a
\* permanent rejection of the destination (terminal); all but "ok" raise
ProviderOutcomes == {"ok", "timeout", "invalid_destination"}

\* call statuses the voice provider posts; "ringing" stands for every value
\* handle_voice_webhook has no branch for
VoiceStatuses == {"busy", "no_answer", "voicemail", "completed", "failed", "ringing"}

\* a retry table that takes no_answer like busy and retries failed calls
VOICE_RETRY_STRATEGY_FLAT(status) ==
    CASE status \in {"busy", "no_answer", "failed"} -> 30
      [] OTHER -> NULL

\* integrations/vapi/voice.py VOICE_RETRY_STRATEGY (minutes; NULL for None)
VOICE_RETRY_STRATEGY(status) ==
    CASE status = "busy" -> 30
      [] status = "no_answer" -> 120
      [] OTHER -> NULL

\* smart_dispatcher.py: rate_limiter.check_rate_limit(rate_key, limit=100, window_seconds=60)
DISPATCH_LIMIT == 100
DISPATCH_WINDOW_SECONDS == 60

\* the circuit_breaker(...) decorators of BrevoClient and VAPIClient
FAILURE_THRESHOLD == 5
RECOVERY_TIMEOUT == 60

Names == {"brevo_api", "vapi_api"}
BreakerOf(channel) == IF channel = "voice" THEN "vapi_api" ELSE "brevo_api"

\* retry_strategy.get("max_attempts", 3)
max_attempts_of(retry_strategy) ==
    IF "max_attempts" \in DOMAIN retry_strategy THEN retry_strategy.max_attempts ELSE 3

\* retry_strategy.get("delays_minutes", [30, 120, 360])
delays_of(retry_strategy) ==
    IF "delays_minutes" \in DOMAIN retry_strategy
    THEN retry_strategy.delays_minutes ELSE <<30, 120, 360>>

\* the retry strategies a campaign of the model is created with: an explicit
\* one and one that leaves both keys to the defaults
RetryStrategies ==
    { [max_attempts |-> 3, delays_minutes |-> <<2>>],
      [retry_on |-> <<"busy", "no_answer", "failed">>] }

Min(a, b) == IF a <= b THEN a ELSE b

StartTime == Minutes(10)

\* a rate-limit window that other targets of the tenant have filled with k
\* dispatches during the 100 ms before the model starts
Busy(k) == {StartTime - i : i \in 1..k}

ACTIVE == {"pending", "retrying"}

\* a campaign without a CampaignScheduleRule row (scalar_one_or_none is None)
NoRule == [present |-> FALSE, start_hour |-> 0, end_hour |-> 0, days_allowed |-> {},
           blackout_dates |-> {}]

NoMetadata == [error |-> "", last_error |-> "", max_retries_exceeded |-> FALSE,
               message_id |-> "", call_id |-> NULL, call_status |-> "",
               retry_reason |-> "", completed_reason |-> "", failure_reason |-> ""]

\* api/v1/campaigns.py _initialize_campaign_targets and the column defaults
NewTarget == [status |-> "pending", attempt_count |-> 0,
              next_attempt_at |-> StartTime, last_attempt_at |-> NULL,
              metadata |-> NoMetadata]

\* no row is gone, nothing was published, no rule is being executed
MoreIdle ==
    /\ orphan = <<>>
    /\ bus = <<>>
    /\ act = <<>>

\* the parts of the system a specification does not exercise
ExtIdle ==
    /\ marker = <<>>
    /\ idw = <<>>
    /\ handled_log = <<>>
    /\ marked_at = <<>>
    /\ auto = <<>>
    /\ tz = <<>>
    /\ MoreIdle

IdleRun == [pc |-> "idle", batch |-> <<>>, campaign_status |-> "unloaded",
            expired |-> FALSE]

NoStep == [op |-> "init", t |-> 0, kind |-> "none"]

\* which row of target x db.get does not find: "campaign", "lead", "tenant",
\* or "none" when all are there
Gone(x) == IF x \in DOMAIN orphan THEN orphan[x] ELSE "none"

\* a query that asks for the due time only
DueTargetsAnyStatus(rows, t) ==
    {x \in Targets : /\ rows[x].next_attempt_at # NULL
                     /\ rows[x].next_attempt_at <= t}

\* the scheduler's query: status in (pending, retrying), next_attempt_at <= now
DueTargets(rows, t) ==
    {x \in Targets : /\ rows[x].status \in {"pending", "retrying"}
                     /\ rows[x].next_attempt_at # NULL
                     /\ rows[x].next_attempt_at <= t}

\* the orders in which a result set can come back (the query has no ORDER BY)
RECURSIVE Orders(_)
Orders(S) == IF S = {} THEN {<<>>}
             ELSE UNION {{<<x>> \o o : o \in Orders(S \ {x})} : x \in S}

\* campaign_scheduler.py line 39: .limit(1000)
BATCH_LIMIT == 1000

\* the limit a scan runs with: the code's, unless the run is set up with a
\* smaller one
ScanLimit == IF "batch_limit" \in DOMAIN cfg THEN cfg.batch_limit ELSE BATCH_LIMIT

\* the result sets a query with LIMIT can give over the matching rows S: any
\* `limit` of them (all when there are fewer), in any order
Batches(S, limit) ==
    UNION {Orders(sub) : sub \in {x \in SUBSET S : Cardinality(x) = Min(Cardinality(S), limit)}}

\* a round of a target starts when it (re-)enters pending or retrying
RoundsAfter(old, new, enqueued) ==
    [x \in Targets |->
        IF new[x].status \in ACTIVE /\ old[x].status \notin ACTIVE
        THEN 0
        ELSE claims[x] + (IF x = enqueued THEN 1 ELSE 0)]

----------------------------------------------------------------------------
(* The variables each part leaves alone *)

redisVars == <<zset, breaker>>
rowVars == <<target, campaign>>
queueVars == <<dispatchQ, sendQ>>
voiceVars == <<calls, processed>>
idemVars == <<marker, idw, handled_log, marked_at>>
moreVars == <<orphan, bus, act>>
extVars == <<idemVars, auto, tz, moreVars>>
limVars == <<rl, allowed_log, cbw, streak>>
primVars == <<rl, allowed_log, cbw, streak, cfg, extVars>>

----------------------------------------------------------------------------
(* The clock *)

\* the instants the clock can move to: one minute on, or the next instant a
\* target becomes due
Instants ==
    {now + Minutes(1)} \cup
    {target[x].next_attempt_at : x \in {y \in Targets : target[y].next_attempt_at > now}}

Tick ==
    /\ ticks < MaxTicks
    /\ \E t \in Instants : now' = t
    /\ ticks' = ticks + 1
    /\ last' = [op |-> "tick", t |-> 0, kind |-> "none"]
    /\ UNCHANGED <<rowVars, queueVars, sched, redisVars, voiceVars, claims, deferred, primVars>>

----------------------------------------------------------------------------
(* api/v1/campaigns.py: pause_campaign and start_campaign *)

PauseCampaign ==
    /\ campaign.status = "running"
    /\ campaign' = [campaign EXCEPT !.status = "paused"]
    /\ last' = [op |-> "pause_campaign", t |-> 0, kind |-> "none"]
    /\ UNCHANGED <<now, ticks, target, queueVars, sched, redisVars, voiceVars, claims, deferred,
                   primVars>>

StartCampaign ==
    /\ campaign.status \in {"draft", "paused"}
    /\ campaign' = [campaign EXCEPT !.status = "running"]
    /\ last' = [op |-> "start_campaign", t |-> 0, kind |-> "none"]
    /\ UNCHANGED <<now, ticks, target, queueVars, sched, redisVars, voiceVars, claims, deferred,
                   primVars>>

----------------------------------------------------------------------------
(* workers/campaign_scheduler.py: _process_pending_targets_async *)

\* lines 29-41: the query; the run ends at once when nothing is due
SchedulerSelect(i) ==
    /\ sched[i].pc = "idle"
    /\ \E batch \in Batches(DueTargets(target, now), ScanLimit) :
          sched' = [sched EXCEPT ![i] =
                       IF batch = <<>> THEN IdleRun
                       ELSE [IdleRun EXCEPT !.pc = "loop", !.batch = batch]]
    /\ last' = [op |-> "select", t |-> 0, kind |-> "none"]
    /\ UNCHANGED <<now, ticks, rowVars, queueVars, redisVars, voiceVars, claims, deferred,
                   primVars>>

\* the loop moves on to the next target of the batch, or the run ends
NextTarget(run) ==
    IF Len(run.batch) = 1 THEN IdleRun
    ELSE [run EXCEPT !.pc = "loop", !.batch = Tail(run.batch)]

\* lines 102-104: the except clause logs and rolls back; a rollback expires
\* every object of the session, the targets still to come included
RolledBack(run) == [run EXCEPT !.expired = TRUE, !.campaign_status = "unloaded"]

\* a status that is processed
is_running_or_paused(status) == status \in {"running", "paused"}

\* line 55: campaign.status != "running" skips the target
is_running(status) == status = "running"

\* line 51: `not campaign or not lead` skips the target
scheduler_finds(gone) == gone \notin {"campaign", "lead"}

\* lines 45-94: one target of the batch up to send_task.  The session keeps
\* the Campaign it loaded first (expire_on_commit=False), so later targets of
\* the run see the campaign status as it was then.  The leads of the model
\* live in UTC (the column default), so the lead's local time is `now`.
\* After a rollback the target is expired: reading target.campaign_id has to
\* reload it outside an await, which the async session either refuses
\* (MissingGreenlet, raised again by target.id inside the except clause, so
\* the run ends) or serves.
SchedulerProcessTarget(i) ==
    /\ sched[i].pc = "loop"
    /\ LET t == Head(sched[i].batch)
           seen == IF sched[i].campaign_status = "unloaded"
                   THEN campaign.status ELSE sched[i].campaign_status
           run == [sched[i] EXCEPT !.campaign_status = seen]
           schedule_rule == campaign.schedule_rule
       IN  \E refused \in (IF sched[i].expired THEN BOOLEAN ELSE {FALSE}) :
           IF refused
           THEN /\ sched' = [sched EXCEPT ![i] = IdleRun]
                /\ last' = [op |-> "schedule", t |-> t, kind |-> "aborted"]
                /\ UNCHANGED <<target, dispatchQ, claims, deferred>>
           ELSE IF ~scheduler_finds(Gone(t))
           THEN \* line 52: continue
                /\ sched' = [sched EXCEPT ![i] = NextTarget(sched[i])]
                /\ last' = [op |-> "schedule", t |-> t, kind |-> "missing"]
                /\ UNCHANGED <<target, dispatchQ, claims, deferred>>
           ELSE IF ~is_running(seen)
           THEN \* line 56: continue
                /\ sched' = [sched EXCEPT ![i] = NextTarget(run)]
                /\ last' = [op |-> "schedule", t |-> t, kind |-> "skipped"]
                /\ UNCHANGED <<target, dispatchQ, claims, deferred>>
           ELSE IF schedule_rule.present
                   /\ ~is_within_schedule(now, schedule_rule.start_hour,
                                          schedule_rule.end_hour,
                                          schedule_rule.days_allowed,
                                          schedule_rule.blackout_dates)
           THEN \* lines 76-87: reschedule for the next available time
                LET next_time == get_next_available_time(
                                     now, schedule_rule.start_hour, schedule_rule.end_hour,
                                     schedule_rule.days_allowed, tz.timedelta_ok)
                IN  /\ IF next_time.raised
                       THEN /\ last' = [op |-> "schedule", t |-> t, kind |-> "error"]
                            /\ sched' = [sched EXCEPT ![i] = NextTarget(RolledBack(run))]
                            /\ UNCHANGED target
                       ELSE /\ last' = [op |-> "schedule", t |-> t, kind |-> "rescheduled"]
                            /\ sched' = [sched EXCEPT ![i] = NextTarget(run)]
                            /\ target' = [target EXCEPT
                                            ![t].next_attempt_at = next_time.value]
                    /\ UNCHANGED <<dispatchQ, claims, deferred>>
           ELSE \E sent \in BOOLEAN :
                  IF sent
                  THEN \* lines 90-94: the task is in the broker, the row not yet updated
                       /\ dispatchQ' = [dispatchQ EXCEPT ![t] = @ + 1]
                       /\ claims' = RoundsAfter(target, target, t)
                       /\ deferred' = deferred \ {t}
                       /\ sched' = [sched EXCEPT ![i] = [run EXCEPT !.pc = "commit"]]
                       /\ last' = [op |-> "schedule", t |-> t, kind |-> "enqueued"]
                       /\ UNCHANGED target
                  ELSE \* send_task raises: lines 102-104 log and roll back
                       /\ sched' = [sched EXCEPT ![i] = NextTarget(RolledBack(run))]
                       /\ last' = [op |-> "schedule", t |-> t, kind |-> "error"]
                       /\ UNCHANGED <<target, dispatchQ, claims, deferred>>
    /\ UNCHANGED <<now, ticks, campaign, sendQ, redisVars, voiceVars, primVars>>

\* lines 96-98: target.status = "processing"; commit
SchedulerCommit(i) ==
    /\ sched[i].pc = "commit"
    /\ LET t == Head(sched[i].batch)
           rows == [target EXCEPT ![t].status = "processing"]
       IN  /\ target' = rows
           /\ claims' = RoundsAfter(target, rows, 0)
           /\ sched' = [sched EXCEPT ![i] = NextTarget(sched[i])]
           /\ last' = [op |-> "claim", t |-> t, kind |-> "none"]
    /\ UNCHANGED <<now, ticks, campaign, queueVars, redisVars, voiceVars, deferred, primVars>>

----------------------------------------------------------------------------
(* workers/smart_dispatcher.py *)

\* _handle_dispatch_failure at instant t: the row it commits, or raised when
\* delays is empty (delays[-1] is an IndexError, which the caller's except
\* answers with a rollback)
handle_dispatch_failure(row, retry_strategy, error, t) ==
    LET attempt_count == row.attempt_count + 1
        counted == [row EXCEPT !.attempt_count = attempt_count, !.last_attempt_at = t]
        max_attempts == max_attempts_of(retry_strategy)
        delays == delays_of(retry_strategy)
        delay_index == Min(attempt_count - 1, Len(delays) - 1)
    IN  IF attempt_count >= max_attempts
        THEN [raised |-> FALSE,
              row |-> [counted EXCEPT !.status = "failed",
                                      !.metadata.error = error,
                                      !.metadata.max_retries_exceeded = TRUE]]
        ELSE IF delay_index < 0
             THEN [raised |-> TRUE, row |-> row]
             ELSE [raised |-> FALSE,
                   row |-> [counted EXCEPT
                              !.status = "retrying",
                              !.next_attempt_at = t + Minutes(delays[delay_index + 1]),
                              !.metadata.last_error = error]]

\* a hand-off that takes the target for delivered
dispatched_row_completed(row, t) ==
    [row EXCEPT !.last_attempt_at = t, !.attempt_count = @ + 1, !.status = "completed"]

\* _dispatch_sms, _dispatch_whatsapp, _dispatch_email, _dispatch_voice after a
\* send_task that went through: stamp and count the attempt
dispatched_row(row, t) ==
    [row EXCEPT !.last_attempt_at = t, !.attempt_count = @ + 1]

\* a deferral that consumes an attempt
deferred_row_counted(row, t) ==
    [row EXCEPT !.next_attempt_at = t + Minutes(1), !.attempt_count = @ + 1]

\* the rate-limited branch of _dispatch_campaign_target_async
deferred_row(row, t) == [row EXCEPT !.next_attempt_at = t + Minutes(1)]

\* lines 33-44: the dispatcher goes on only when campaign, lead and tenant are
\* there (a missing campaign raises at campaign.tenant_id, which lines 76-78
\* answer with a rollback; a missing lead or tenant returns)
dispatcher_finds(gone) == gone = "none"

\* _dispatch_campaign_target_async, the whole task
DispatchCampaignTarget(t) ==
    /\ dispatchQ[t] > 0
    /\ target[t].attempt_count < MaxAttemptCount
    /\ dispatchQ' = [dispatchQ EXCEPT ![t] = @ - 1]
    /\ IF ~dispatcher_finds(Gone(t))
       THEN /\ last' = [op |-> "dispatch", t |-> t, kind |-> "missing"]
            /\ UNCHANGED <<target, zset, sendQ, deferred>>
       ELSE
       LET checked == check_rate_limit(zset, now, DISPATCH_LIMIT, DISPATCH_WINDOW_SECONDS)
       IN  /\ zset' = checked.zset
           /\ IF ~checked.is_allowed
              THEN /\ target' = [target EXCEPT ![t] = deferred_row(@, now)]
                   /\ last' = [op |-> "dispatch", t |-> t, kind |-> "deferral"]
                   /\ deferred' = deferred \cup {t}
                   /\ UNCHANGED sendQ
              ELSE IF campaign.channel \in Channels
              THEN \E sent \in BOOLEAN :
                     IF sent
                     THEN /\ sendQ' = [sendQ EXCEPT ![t] = @ + 1]
                          /\ target' = [target EXCEPT ![t] = dispatched_row(@, now)]
                          /\ last' = [op |-> "dispatch", t |-> t, kind |-> "sent"]
                          /\ UNCHANGED deferred
                     ELSE \* send_task raises
                          LET handled == handle_dispatch_failure(
                                             target[t], campaign.retry_strategy,
                                             "broker", now)
                          IN  /\ target' = [target EXCEPT ![t] = handled.row]
                              /\ last' = [op |-> "dispatch", t |-> t,
                                          kind |-> IF handled.raised THEN "error"
                                                   ELSE "retryable"]
                              /\ UNCHANGED <<sendQ, deferred>>
              ELSE /\ target' = [target EXCEPT
                                   ![t].status = "failed",
                                   ![t].metadata.error = "unknown_channel"]
                   /\ last' = [op |-> "dispatch", t |-> t, kind |-> "terminal"]
                   /\ UNCHANGED <<sendQ, deferred>>
    /\ claims' = RoundsAfter(target, target', 0)
    /\ UNCHANGED <<now, ticks, campaign, sched, breaker, voiceVars, primVars>>

----------------------------------------------------------------------------
(* The provider clients and the channel sender tasks *)

\* what a failed provider request is to the retry policy
FailureKind(outcome) ==
    IF outcome = "invalid_destination" THEN "terminal" ELSE "retryable"

\* BrevoClient._make_request / VAPIClient._make_request behind the
\* circuit_breaker decorator, at instant t.  The decorator's wrapper is a plain
\* function around an async one: CircuitBreaker.call gets the coroutine back
\* from func without an exception and records a success; the request itself
\* runs when the caller awaits the coroutine, and ends as `outcome`.
make_request(b, t, outcome) ==
    LET got == get_state(b, t, RECOVERY_TIMEOUT)
    IN  IF got.state = OPEN
        THEN [outcome |-> "circuit_open", keys |-> got.keys]
        ELSE [outcome |-> outcome, keys |-> record_success(got.keys)]

\* _send_sms_async, _send_whatsapp_async, _send_email_async: the row after
\* the request ended as `outcome`
sent_row(row, outcome) ==
    IF outcome = "ok"
    THEN [row EXCEPT !.status = "completed", !.metadata.message_id = "id"]
    ELSE [row EXCEPT !.status = "failed", !.metadata.error = outcome]

\* send_sms, send_whatsapp, send_email
SendBrevo(t) ==
    /\ sendQ[t] > 0
    /\ campaign.channel \in BrevoChannels
    /\ sendQ' = [sendQ EXCEPT ![t] = @ - 1]
    /\ \E outcome \in ProviderOutcomes :
         LET req == make_request(breaker["brevo_api"], now, outcome)
         IN  /\ breaker' = [breaker EXCEPT !["brevo_api"] = req.keys]
             /\ target' = [target EXCEPT ![t] = sent_row(@, req.outcome)]
             /\ last' = [op |-> "send", t |-> t,
                         kind |-> IF req.outcome = "ok" THEN "success"
                                  ELSE FailureKind(req.outcome)]
    /\ claims' = RoundsAfter(target, target', 0)
    /\ UNCHANGED <<now, ticks, campaign, dispatchQ, sched, zset, voiceVars, deferred, primVars>>

\* _make_call_async: the row after create_call ended as `outcome`, for the
\* call id the provider gave
called_row(row, outcome, call_id) ==
    IF outcome = "ok"
    THEN [row EXCEPT !.metadata.call_id = call_id, !.metadata.call_status = "initiated"]
    ELSE [row EXCEPT !.status = "failed", !.metadata.error = outcome]

\* make_call
MakeCall(t) ==
    /\ sendQ[t] > 0
    /\ campaign.channel = "voice"
    /\ sendQ' = [sendQ EXCEPT ![t] = @ - 1]
    /\ \E outcome \in ProviderOutcomes :
         LET req == make_request(breaker["vapi_api"], now, outcome)
         IN  /\ breaker' = [breaker EXCEPT !["vapi_api"] = req.keys]
             /\ target' = [target EXCEPT ![t] = called_row(@, req.outcome, Len(calls) + 1)]
             /\ calls' = IF req.outcome = "ok" THEN Append(calls, t) ELSE calls
             /\ last' = [op |-> "send", t |-> t,
                         kind |-> IF req.outcome = "ok" THEN "success"
                                  ELSE FailureKind(req.outcome)]
    /\ claims' = RoundsAfter(target, target', 0)
    /\ UNCHANGED <<now, ticks, campaign, dispatchQ, sched, zset, processed, deferred, primVars>>

----------------------------------------------------------------------------
(* integrations/vapi/voice.py handle_voice_webhook, reached through          *)
(* api/v1/webhooks.py vapi_call_status_webhook                               *)

\* handle_voice_webhook at instant t: the row it commits
voice_row(row, status, t) ==
    LET seen == [row EXCEPT !.metadata.call_status = status]
        retry_delay == VOICE_RETRY_STRATEGY(status)
    IN  IF retry_delay # NULL
        THEN [seen EXCEPT !.status = "retrying",
                          !.next_attempt_at = t + Minutes(retry_delay),
                          !.metadata.retry_reason = status]
        ELSE IF status = "voicemail"
        THEN [seen EXCEPT !.status = "completed",
                          !.metadata.completed_reason = "voicemail"]
        ELSE IF status = "completed"
        THEN [seen EXCEPT !.status = "completed"]
        ELSE [seen EXCEPT !.status = "failed", !.metadata.failure_reason = status]

\* what a call status is to the retry policy
StatusKind(status) ==
    CASE status \in {"busy", "no_answer"} -> "retryable"
      [] status \in {"voicemail", "completed"} -> "success"
      [] OTHER -> "terminal"

\* vapi_call_status_webhook for a status of call c that was not processed yet
VapiCallStatusWebhook(c, status) ==
    /\ c \in DOMAIN calls
    /\ <<c, status>> \notin processed
    /\ Cardinality(processed) < MaxWebhooks
    /\ LET t == calls[c]
       IN  /\ target' = [target EXCEPT ![t] = voice_row(@, status, now)]
           /\ last' = [op |-> "webhook", t |-> t, kind |-> StatusKind(status)]
    /\ processed' = processed \cup {<<c, status>>}
    /\ claims' = RoundsAfter(target, target', 0)
    /\ UNCHANGED <<now, ticks, campaign, queueVars, sched, redisVars, calls, deferred, primVars>>

----------------------------------------------------------------------------
(* The engine's specification *)

Init ==
    /\ now = StartTime
    /\ ticks = 0
    /\ target = [x \in 1..NumTargets |-> NewTarget]
    /\ \E channel \in CampaignChannels, retry_strategy \in RetryStrategies :
          campaign = [status |-> "running", channel |-> channel,
                      retry_strategy |-> retry_strategy, schedule_rule |-> NoRule]
    /\ dispatchQ = [x \in 1..NumTargets |-> 0]
    /\ sendQ = [x \in 1..NumTargets |-> 0]
    /\ sched = [i \in Schedulers |-> IdleRun]
    /\ zset \in {{}, Busy(DISPATCH_LIMIT)}
    /\ breaker = [n \in Names |-> NoKeys]
    /\ calls = <<>>
    /\ processed = {}
    /\ claims = [x \in 1..NumTargets |-> 0]
    /\ deferred = {}
    /\ last = NoStep
    /\ rl = <<>>
    /\ allowed_log = <<>>
    /\ cbw = <<>>
    /\ streak = <<>>
    /\ ExtIdle
    /\ cfg = [limit |-> DISPATCH_LIMIT, window_seconds |-> DISPATCH_WINDOW_SECONDS,
              failure_threshold |-> FAILURE_THRESHOLD,
              recovery_timeout |-> RECOVERY_TIMEOUT]

Next ==
    \/ Tick
    \/ \E i \in Schedulers : SchedulerSelect(i)
    \/ \E i \in Schedulers : SchedulerProcessTarget(i)
    \/ \E i \in Schedulers : SchedulerCommit(i)
    \/ \E t \in Targets : DispatchCampaignTarget(t)
    \/ \E t \in Targets : SendBrevo(t)
    \/ \E t \in Targets : MakeCall(t)
    \/ \E c \in 1..MaxAttemptCount, status \in VoiceStatuses : VapiCallStatusWebhook(c, status)

Spec == Init /\ [][Next]_vars

----------------------------------------------------------------------------
(* Claims about the engine *)

\* C1: in every round of every target the scheduler runs enqueue at most one
\* dispatch_campaign_target task.
C1_SingleClaim == \A t \in Targets : claims[t] <= 1

\* C2: a step makes a target failed only on a terminal failure or on a
\* retryable failure with attempt_count >= max_attempts, and each of those
\* makes it failed.
C2_FailedIffExhaustedOrTerminal ==
    [][\A t \in Targets :
          LET exhausted == /\ last'.t = t /\ last'.kind = "retryable"
                           /\ target'[t].attempt_count
                                  >= max_attempts_of(campaign.retry_strategy)
              terminal == last'.t = t /\ last'.kind = "terminal"
          IN  /\ (target[t].status # "failed" /\ target'[t].status = "failed")
                    => (exhausted \/ terminal)
              /\ (exhausted \/ terminal) => target'[t].status = "failed"]_vars

\* C3: no step changes the status of a target that is completed or failed.
C3_TerminalStatuses ==
    [][\A t \in Targets :
          target[t].status \in {"completed", "failed"}
              => target'[t].status = target[t].status]_vars

\* C4: a step that puts a target into retrying after a failure sets
\* next_attempt_at to now + delays[min(attempt_count - 1, len(delays) - 1)].
C4_BackoffFromPolicy ==
    [][\A t \in Targets :
          (last'.t = t /\ last'.kind = "retryable" /\ target'[t].status = "retrying")
              => LET delays == delays_of(campaign.retry_strategy)
                     i == Min(target'[t].attempt_count - 1, Len(delays) - 1)
                 IN  target'[t].next_attempt_at = now + Minutes(delays[i + 1])]_vars

\* the entries of the dispatcher's rate-limit window at the instant `now`
LiveEntries == {s \in zset : s > now - Seconds(DISPATCH_WINDOW_SECONDS)}

\* C7: a dispatch that finds the window full sets next_attempt_at to
\* now + 1 minute, enqueues no sender task and changes nothing else of the row.
C7_DeferralFrame ==
    [][\A t \in Targets :
          (last'.op = "dispatch" /\ last'.t = t
             /\ Cardinality(LiveEntries) >= DISPATCH_LIMIT)
              => /\ target'[t] = [target[t] EXCEPT !.next_attempt_at = now + Minutes(1)]
                 /\ sendQ' = sendQ]_vars

C7_Witness ==
    \E t \in Targets :
        /\ last.op = "dispatch" /\ last.t = t /\ last.kind = "deferral"
        /\ target[t].next_attempt_at = now + Minutes(1)
        /\ target[t].attempt_count = 0

\* C8: a target the rate limiter deferred is selected by a scheduler scan
\* once its next_attempt_at has elapsed and its campaign is running.
C8_DeferredIsRescanned ==
    \A t \in deferred :
        (target[t].next_attempt_at <= now /\ campaign.status = "running")
            => t \in DueTargets(target, now)

----------------------------------------------------------------------------
(* The rate limiter on its own: one key, every call with the same limit and *)
(* window_seconds.  `now` is what time.time() returns; the clock moves in    *)
(* steps of a second, and calls made between two steps read the same value.  *)

RLWorkers == 1..NumRLWorkers

coreVars == <<target, campaign, dispatchQ, sendQ, sched, calls, processed, claims,
              deferred>>
engineVars == <<coreVars, extVars>>

EngineIdle ==
    /\ target = [x \in 1..NumTargets |-> NewTarget]
    /\ campaign = [status |-> "draft", channel |-> "sms",
                   retry_strategy |-> [max_attempts |-> 3, delays_minutes |-> <<2>>],
                   schedule_rule |-> NoRule]
    /\ dispatchQ = [x \in 1..NumTargets |-> 0]
    /\ sendQ = [x \in 1..NumTargets |-> 0]
    /\ sched = [i \in Schedulers |-> IdleRun]
    /\ calls = <<>>
    /\ processed = {}
    /\ claims = [x \in 1..NumTargets |-> 0]
    /\ deferred = {}

InitRL ==
    /\ EngineIdle
    /\ now = StartTime
    /\ ticks = 0
    /\ zset = {}
    /\ breaker = [n \in Names |-> NoKeys]
    /\ last = NoStep
    /\ rl = [w \in RLWorkers |-> [pc |-> "idle", at |-> NULL, current_count |-> 0]]
    /\ allowed_log = <<>>
    /\ cbw = <<>>
    /\ streak = <<>>
    /\ ExtIdle
    /\ \E limit \in 1..MaxLimit, window_seconds \in 1..MaxWindow :
          cfg = [limit |-> limit, window_seconds |-> window_seconds,
                 failure_threshold |-> FAILURE_THRESHOLD,
                 recovery_timeout |-> RECOVERY_TIMEOUT]

RLTick ==
    /\ ticks < MaxRLTicks
    /\ now' = now + Seconds(1)
    /\ ticks' = ticks + 1
    /\ last' = [op |-> "tick", t |-> 0, kind |-> "none"]
    /\ UNCHANGED <<engineVars, redisVars, primVars>>

\* one call of check_rate_limit, start to end
CheckRateLimit ==
    /\ Len(allowed_log) < MaxAllowed
    /\ LET checked == check_rate_limit(zset, now, cfg.limit, cfg.window_seconds)
       IN  /\ zset' = checked.zset
           /\ allowed_log' = IF checked.is_allowed THEN Append(allowed_log, now)
                              ELSE allowed_log
           /\ last' = [op |-> "check_rate_limit", t |-> 0,
                       kind |-> IF checked.is_allowed THEN "allowed" ELSE "denied"]
    /\ UNCHANGED <<now, ticks, engineVars, breaker, rl, cbw, streak, cfg>>

NextRL == RLTick \/ CheckRateLimit

SpecRL == InitRL /\ [][NextRL]_vars

----------------------------------------------------------------------------
(* The rate limiter called by several workers: each Redis command is a step *)

\* lines 32-36: read the clock, purge
RLPurge(w) ==
    /\ rl[w].pc = "idle"
    /\ Len(allowed_log) < MaxAllowed
    /\ zset' = zremrangebyscore(zset, 0, now - Seconds(cfg.window_seconds))
    /\ rl' = [rl EXCEPT ![w] = [pc |-> "purged", at |-> now, current_count |-> 0]]
    /\ last' = [op |-> "zremrangebyscore", t |-> w, kind |-> "none"]
    /\ UNCHANGED <<now, ticks, engineVars, breaker, allowed_log, cbw, streak, cfg>>

\* line 39: count
RLCount(w) ==
    /\ rl[w].pc = "purged"
    /\ rl' = [rl EXCEPT ![w].pc = "counted", ![w].current_count = zcard(zset)]
    /\ last' = [op |-> "zcard", t |-> w, kind |-> "none"]
    /\ UNCHANGED <<now, ticks, engineVars, redisVars, allowed_log, cbw, streak, cfg>>

\* lines 41-47: record the call and allow, or deny
RLFinish(w) ==
    /\ rl[w].pc = "counted"
    /\ IF rl[w].current_count < cfg.limit
       THEN /\ zset' = zadd(zset, rl[w].at)
            /\ allowed_log' = Append(allowed_log, rl[w].at)
            /\ last' = [op |-> "check_rate_limit", t |-> w, kind |-> "allowed"]
       ELSE /\ last' = [op |-> "check_rate_limit", t |-> w, kind |-> "denied"]
            /\ UNCHANGED <<zset, allowed_log>>
    /\ rl' = [rl EXCEPT ![w] = [pc |-> "idle", at |-> NULL, current_count |-> 0]]
    /\ UNCHANGED <<now, ticks, engineVars, breaker, cbw, streak, cfg>>

NextRLC ==
    \/ RLTick
    \/ \E w \in RLWorkers : RLPurge(w)
    \/ \E w \in RLWorkers : RLCount(w)
    \/ \E w \in RLWorkers : RLFinish(w)

SpecRLC == InitRL /\ [][NextRLC]_vars

----------------------------------------------------------------------------
(* The circuit breaker on its own: one CircuitBreaker(failure_threshold,    *)
(* recovery_timeout) used by several workers for the integration names.      *)

CBWorkers == 1..NumCBWorkers
CBNames == {"brevo_api"}

\* a worker outside CircuitBreaker.call; `seen` is the state its call read
IdleCaller == [pc |-> "idle", name |-> "", seen |-> "none"]
NoStreak == [n |-> 0, at |-> NULL, from_closed |-> FALSE]

InitCB ==
    /\ EngineIdle
    /\ now = StartTime
    /\ ticks = 0
    /\ zset = {}
    /\ breaker = [n \in Names |-> NoKeys]
    /\ last = NoStep
    /\ rl = <<>>
    /\ allowed_log = <<>>
    /\ ExtIdle
    /\ cbw = [w \in CBWorkers |-> IdleCaller]
    /\ streak = [n \in Names |-> NoStreak]
    /\ \E failure_threshold \in 1..MaxThreshold, recovery_timeout \in 1..MaxTimeout :
          cfg = [limit |-> DISPATCH_LIMIT, window_seconds |-> DISPATCH_WINDOW_SECONDS,
                 failure_threshold |-> failure_threshold,
                 recovery_timeout |-> recovery_timeout]

\* history: the run of consecutive failures of breaker n after one more
\* failure now.  A failure continues the run when the one before it is less
\* than recovery_timeout old (the counter's TTL); otherwise it starts a run,
\* from closed when the state key then says so.
StreakAfterFailure(n) ==
    LET s == streak[n]
    IN  IF s.n > 0 /\ now - s.at < Seconds(cfg.recovery_timeout)
        THEN [s EXCEPT !.n = @ + 1, !.at = now]
        ELSE [n |-> 1, at |-> now,
              from_closed |-> breaker[n].state \in {"none", CLOSED}]

CBTick ==
    /\ ticks < MaxCBTicks
    /\ now' = now + Seconds(1)
    /\ ticks' = ticks + 1
    /\ last' = [op |-> "tick", t |-> "", kind |-> "none", w |-> 0]
    /\ UNCHANGED <<engineVars, redisVars, primVars>>

\* CircuitBreaker.get_state(name)
GetState(n) ==
    /\ LET got == get_state(breaker[n], now, cfg.recovery_timeout)
       IN  /\ breaker' = [breaker EXCEPT ![n] = got.keys]
           /\ last' = [op |-> "get_state", t |-> n, kind |-> got.state, w |-> 0]
    /\ UNCHANGED <<now, ticks, engineVars, zset, primVars>>

\* CircuitBreaker.record_success(name)
RecordSuccess(n) ==
    /\ breaker' = [breaker EXCEPT ![n] = record_success(@)]
    /\ streak' = [streak EXCEPT ![n] = NoStreak]
    /\ last' = [op |-> "record_success", t |-> n, kind |-> "success_recorded", w |-> 0,
                from |-> breaker[n].state]
    /\ UNCHANGED <<now, ticks, engineVars, zset, rl, allowed_log, cbw, cfg>>

\* CircuitBreaker.record_failure(name)
RecordFailure(n) ==
    /\ failures_at(breaker[n], now) < MaxFailures
    /\ breaker' = [breaker EXCEPT ![n] =
                      record_failure(@, now, cfg.failure_threshold, cfg.recovery_timeout)]
    /\ streak' = [streak EXCEPT ![n] = StreakAfterFailure(n)]
    /\ last' = [op |-> "record_failure", t |-> n, kind |-> "failure_recorded", w |-> 0]
    /\ UNCHANGED <<now, ticks, engineVars, zset, rl, allowed_log, cbw, cfg>>

\* CircuitBreaker.call, lines 116-122: read the state; raise when it is open,
\* otherwise enter the wrapped function
CallEnter(w, n) ==
    /\ cbw[w].pc = "idle"
    /\ LET got == get_state(breaker[n], now, cfg.recovery_timeout)
       IN  /\ breaker' = [breaker EXCEPT ![n] = got.keys]
           /\ IF got.state = OPEN
              THEN /\ last' = [op |-> "call", t |-> n, kind |-> "rejected", w |-> w]
                   /\ UNCHANGED cbw
              ELSE /\ last' = [op |-> "call", t |-> n, kind |-> "invoked", w |-> w]
                   /\ cbw' = [cbw EXCEPT ![w] = [pc |-> "calling", name |-> n,
                                                seen |-> got.state]]
    /\ UNCHANGED <<now, ticks, engineVars, zset, rl, allowed_log, streak, cfg>>

\* CircuitBreaker.call, lines 122-127: the wrapped function returns or raises
CallReturn(w, raised) ==
    /\ cbw[w].pc = "calling"
    /\ LET n == cbw[w].name
       IN  IF raised
           THEN /\ failures_at(breaker[n], now) < MaxFailures
                /\ breaker' = [breaker EXCEPT ![n] =
                                  record_failure(@, now, cfg.failure_threshold,
                                                 cfg.recovery_timeout)]
                /\ streak' = [streak EXCEPT ![n] = StreakAfterFailure(n)]
                /\ last' = [op |-> "return", t |-> n, kind |-> "failure_recorded", w |-> w]
           ELSE /\ breaker' = [breaker EXCEPT ![n] = record_success(@)]
                /\ streak' = [streak EXCEPT ![n] = NoStreak]
                /\ last' = [op |-> "return", t |-> n, kind |-> "success_recorded", w |-> w,
                            from |-> breaker[n].state]
    /\ cbw' = [cbw EXCEPT ![w] = IdleCaller]
    /\ UNCHANGED <<now, ticks, engineVars, zset, rl, allowed_log, cfg>>

NextCB ==
    \/ CBTick
    \/ \E n \in CBNames : GetState(n)
    \/ \E n \in CBNames : RecordSuccess(n)
    \/ \E n \in CBNames : RecordFailure(n)
    \/ \E w \in CBWorkers, n \in CBNames : CallEnter(w, n)
    \/ \E w \in CBWorkers, raised \in BOOLEAN : CallReturn(w, raised)

SpecCB == InitCB /\ [][NextCB]_vars

----------------------------------------------------------------------------
(* Claims about the rate limiter *)

\* the entries of the log that fall into the window [from, from + window_seconds)
InWindow(from) ==
    {j \in DOMAIN allowed_log :
        allowed_log[j] >= from /\ allowed_log[j] < from + Seconds(cfg.window_seconds)}

\* C5: with sequential calls on one key, no span of window_seconds holds more
\* than limit allowed calls, and a call is denied only while limit allowed
\* calls lie within the window that ends at it.
C5_SequentialWindowBound ==
    /\ \A i \in DOMAIN allowed_log :
          Cardinality(InWindow(allowed_log[i])) <= cfg.limit
    /\ (last.op = "check_rate_limit" /\ last.kind = "denied")
          => Cardinality({j \in DOMAIN allowed_log :
                             allowed_log[j] > now - Seconds(cfg.window_seconds)})
                >= cfg.limit

\* C6: under any interleaving of the workers' purge, count and record steps,
\* no span of window_seconds holds more than limit allowed calls.  The calls
\* are counted by the instants they read, so two calls count as two only when
\* they are recorded as two members.
C6_ConcurrentWindowBound ==
    \A i \in DOMAIN allowed_log :
        Cardinality({allowed_log[j] : j \in InWindow(allowed_log[i])}) <= cfg.limit

----------------------------------------------------------------------------
(* Claims about the circuit breaker *)

\* C9: after a record_failure that belongs to a run of consecutive failures
\* begun in closed, the breaker is open when the run has reached
\* failure_threshold, and closed when it has not.
C9_TripsAtThreshold ==
    \A n \in CBNames :
        (last.kind = "failure_recorded" /\ last.t = n /\ streak[n].from_closed)
            => IF streak[n].n >= cfg.failure_threshold
               THEN breaker[n].state = OPEN
               ELSE breaker[n].state \in {"none", CLOSED}

C9_Witness ==
    \E n \in CBNames :
        /\ last.kind = "failure_recorded" /\ last.t = n
        /\ streak[n].from_closed
        /\ cfg.failure_threshold = 2
        /\ streak[n].n = 2
        /\ breaker[n].state = OPEN

\* C10: a call made while the state key says open and the last failure is
\* less than recovery_timeout old is rejected, and its caller does not enter
\* the wrapped function.
C10_OpenRejects ==
    [][\A w \in CBWorkers, n \in CBNames :
          ( /\ breaker[n].state = OPEN
            /\ now - breaker[n].last_failure < Seconds(cfg.recovery_timeout)
            /\ last'.op = "call" /\ last'.t = n /\ last'.w = w )
          => (last'.kind = "rejected" /\ cbw'[w] = cbw[w] /\ cbw'[w].pc = "idle")]_vars

C10_Witness ==
    \E n \in CBNames :
        /\ last.op = "call" /\ last.t = n /\ last.kind = "rejected"
        /\ breaker[n].state = OPEN
        /\ now - breaker[n].last_failure < Seconds(cfg.recovery_timeout)

\* C24: a call that is rejected because the breaker is open leaves the
\* breaker's keys as they were: failure counter (and its expiry), last-failure
\* timestamp and state.
C24_RejectionWritesNothing ==
    [][\A n \in CBNames :
          ( last'.op = "call" /\ last'.t = n /\ last'.kind = "rejected" )
          => /\ breaker'[n].failures = breaker[n].failures
             /\ breaker'[n].failures_expire = breaker[n].failures_expire
             /\ breaker'[n].last_failure = breaker[n].last_failure
             /\ breaker'[n].state = breaker[n].state
             /\ breaker[n].state = OPEN]_vars

C24_Witness ==
    \E n \in CBNames :
        /\ last.op = "call" /\ last.t = n /\ last.kind = "rejected"
        /\ breaker[n].state = OPEN
        /\ breaker[n].failures >= 1
        /\ breaker[n].last_failure < now

\* C11: a get_state on an open breaker reports half_open (and writes it) when
\* at least recovery_timeout has passed since the last recorded failure, and
\* reports open and writes nothing before that; the passing of time alone
\* changes no key.
C11_LazyHalfOpen ==
    [][\A n \in CBNames :
          /\ (breaker[n].state = OPEN /\ last'.op = "get_state" /\ last'.t = n)
                => IF now - breaker[n].last_failure >= Seconds(cfg.recovery_timeout)
                   THEN last'.kind = HALF_OPEN /\ breaker'[n].state = HALF_OPEN
                   ELSE last'.kind = OPEN /\ breaker'[n] = breaker[n]
          /\ (last'.op = "tick") => breaker'[n] = breaker[n]]_vars

C11_Witness ==
    \E n \in CBNames :
        /\ last.op = "get_state" /\ last.t = n /\ last.kind = HALF_OPEN
        /\ breaker[n].state = HALF_OPEN
        /\ now - breaker[n].last_failure = Seconds(cfg.recovery_timeout)

\* C12: a call that entered while the breaker was half_open and fails while
\* it still is half_open leaves the breaker open.
C12_ProbeFailureReopens ==
    [][\A w \in CBWorkers, n \in CBNames :
          ( /\ cbw[w].pc = "calling" /\ cbw[w].name = n /\ cbw[w].seen = HALF_OPEN
            /\ breaker[n].state = HALF_OPEN
            /\ last'.op = "return" /\ last'.w = w /\ last'.kind = "failure_recorded" )
          => breaker'[n].state = OPEN]_vars

\* C13: at most one call that read half_open is inside the wrapped function
\* at a time.
C13_SingleProbe ==
    \A n \in CBNames :
        Cardinality({w \in CBWorkers : /\ cbw[w].pc = "calling" /\ cbw[w].name = n
                                       /\ cbw[w].seen = HALF_OPEN}) <= 1

\* C14: after record_success, from closed, open or half_open alike, the state
\* is closed and the failure counter reads 0.
C14_SuccessCloses ==
    \A n \in CBNames :
        (last.kind = "success_recorded" /\ last.t = n)
            => /\ breaker[n].state = CLOSED
               /\ failures_at(breaker[n], now) = 0
               /\ breaker[n].failures = 0

C14_Witness ==
    \E n \in CBNames :
        /\ last.kind = "success_recorded" /\ last.t = n /\ last.from = OPEN
        /\ breaker[n].state = CLOSED
        /\ breaker[n].failures = 0


----------------------------------------------------------------------------
(* utils/idempotency.py and the call-status webhook that uses it:            *)
(* api/v1/webhooks.py vapi_call_status_webhook, served by several workers.   *)

IdemWorkers == 1..NumIdemWorkers

\* the call ids and statuses the provider posts in the model
IdemCalls == {"call-1"}
IdemStatuses == {"busy", "completed"}

\* IdempotencyService.generate_key: the arguments joined with "|" (the
\* SHA-256 of the joined text is taken to be injective)
generate_key(source, id, discriminator) == source \o "|" \o id \o "|" \o discriminator

IdemKeys == {generate_key("vapi_call", c, st) : c \in IdemCalls, st \in IdemStatuses}

\* a key that is absent from Redis
NoMarker == [value |-> "", expires |-> NULL]

\* IdempotencyService.is_processed at instant t: redis.exists(key) > 0
is_processed(m, key, t) == m[key].expires # NULL /\ t < m[key].expires

\* a mark_processed whose expiry is twice the ttl
mark_processed_long(m, key, result, t, ttl_seconds) ==
    [m EXCEPT ![key] = [value |-> IF result = "" THEN "processed" ELSE result,
                        expires |-> t + Seconds(2 * ttl_seconds)]]

\* IdempotencyService.mark_processed at instant t: SET key value EX ttl_seconds
mark_processed(m, key, result, t, ttl_seconds) ==
    [m EXCEPT ![key] = [value |-> IF result = "" THEN "processed" ELSE result,
                        expires |-> t + Seconds(ttl_seconds)]]

IdleRequest == [pc |-> "idle", key |-> "", status |-> ""]

\* how a run of handle_voice_webhook ends: the status update is committed,
\* the target is not found (or the metadata names none), or an error rolls
\* the update back
HandleOutcomes == {"applied", "not_found", "error"}

InitIdem ==
    /\ EngineIdle
    /\ now = StartTime
    /\ ticks = 0
    /\ zset = {}
    /\ breaker = [n \in Names |-> NoKeys]
    /\ last = NoStep
    /\ rl = <<>>
    /\ allowed_log = <<>>
    /\ cbw = <<>>
    /\ streak = <<>>
    /\ marker = [k \in IdemKeys |-> NoMarker]
    /\ idw = [w \in IdemWorkers |-> IdleRequest]
    /\ handled_log = <<>>
    /\ marked_at = [k \in IdemKeys |-> NULL]
    /\ auto = <<>>
    /\ tz = <<>>
    /\ MoreIdle
    /\ \E ttl_seconds \in 1..MaxTTL :
          cfg = [limit |-> DISPATCH_LIMIT, window_seconds |-> DISPATCH_WINDOW_SECONDS,
                 failure_threshold |-> FAILURE_THRESHOLD,
                 recovery_timeout |-> RECOVERY_TIMEOUT,
                 ttl_seconds |-> ttl_seconds]

IdemTick ==
    /\ ticks < MaxIdemTicks
    /\ now' = now + Seconds(1)
    /\ ticks' = ticks + 1
    /\ last' = [op |-> "tick", t |-> "", kind |-> "none", w |-> 0]
    /\ UNCHANGED <<coreVars, redisVars, limVars, cfg, moreVars, idemVars, auto, tz>>

\* vapi_call_status_webhook, lines 86-95: a body without a call id is
\* answered with 400
WebhookNoCallId(w) ==
    /\ idw[w].pc = "idle"
    /\ last' = [op |-> "webhook_check", t |-> "", kind |-> "bad_request", w |-> w]
    /\ UNCHANGED <<now, ticks, coreVars, redisVars, limVars, cfg, moreVars, idemVars, auto, tz>>

\* vapi_call_status_webhook, lines 97-107: the key is generated and looked up;
\* a processed key is answered with already_processed
WebhookCheck(w, call_id, status_value) ==
    /\ idw[w].pc = "idle"
    /\ Len(handled_log) + Cardinality({x \in IdemWorkers : idw[x].pc = "handle"})
          < MaxHandled
    /\ LET idempotency_key == generate_key("vapi_call", call_id, status_value)
       IN  IF is_processed(marker, idempotency_key, now)
           THEN /\ last' = [op |-> "webhook_check", t |-> idempotency_key,
                            kind |-> "already_processed", w |-> w]
                /\ UNCHANGED idw
           ELSE /\ last' = [op |-> "webhook_check", t |-> idempotency_key,
                            kind |-> "new", w |-> w]
                /\ idw' = [idw EXCEPT ![w] = [pc |-> "handle", key |-> idempotency_key,
                                              status |-> status_value]]
    /\ UNCHANGED <<now, ticks, coreVars, redisVars, limVars, cfg, moreVars, marker, handled_log,
                   marked_at, auto, tz>>

\* vapi_call_status_webhook, lines 109-114: handle_voice_webhook runs; it
\* catches its own errors, so the endpoint goes on whatever the outcome
WebhookHandle(w, outcome) ==
    /\ idw[w].pc = "handle"
    /\ target' = IF outcome = "applied"
                 THEN [target EXCEPT ![1] = voice_row(@, idw[w].status, now)]
                 ELSE target
    /\ handled_log' = Append(handled_log,
                             [key |-> idw[w].key, at |-> now, outcome |-> outcome])
    /\ idw' = [idw EXCEPT ![w].pc = "mark"]
    /\ last' = [op |-> "webhook_handle", t |-> idw[w].key, kind |-> outcome, w |-> w]
    /\ UNCHANGED <<now, ticks, campaign, dispatchQ, sendQ, sched, calls, processed, claims,
                   deferred, redisVars, limVars, cfg, moreVars, marker, marked_at, auto, tz>>

\* vapi_call_status_webhook, lines 116-119: mark_processed, then the answer
WebhookMark(w) ==
    /\ idw[w].pc = "mark"
    /\ marker' = mark_processed(marker, idw[w].key, "", now, cfg.ttl_seconds)
    /\ marked_at' = [marked_at EXCEPT ![idw[w].key] = now]
    /\ idw' = [idw EXCEPT ![w] = IdleRequest]
    /\ last' = [op |-> "webhook_mark", t |-> idw[w].key, kind |-> "ok", w |-> w]
    /\ UNCHANGED <<now, ticks, coreVars, redisVars, limVars, cfg, moreVars, handled_log, auto, tz>>

NextIdem ==
    \/ IdemTick
    \/ \E w \in IdemWorkers : WebhookNoCallId(w)
    \/ \E w \in IdemWorkers, c \in IdemCalls, st \in IdemStatuses : WebhookCheck(w, c, st)
    \/ \E w \in IdemWorkers, outcome \in HandleOutcomes : WebhookHandle(w, outcome)
    \/ \E w \in IdemWorkers : WebhookMark(w)

SpecIdem == InitIdem /\ [][NextIdem]_vars

----------------------------------------------------------------------------
(* Claims about the idempotency of webhooks *)

C16_MarkerLifetime ==
    /\ [](\A k \in IdemKeys :
             is_processed(marker, k, now)
                <=> (marked_at[k] # NULL /\ now < marked_at[k] + Seconds(cfg.ttl_seconds)))
    /\ [][\A w \in IdemWorkers, k \in IdemKeys :
             ( /\ last'.op = "webhook_check" /\ last'.w = w /\ last'.t = k
               /\ marked_at[k] # NULL
               /\ now >= marked_at[k] + Seconds(cfg.ttl_seconds) )
             => (idw'[w].pc = "handle" /\ idw'[w].key = k)]_vars

C16_Witness ==
    \E w \in IdemWorkers :
        /\ idw[w].pc = "handle"
        /\ last.op = "webhook_check" /\ last.w = w
        /\ marked_at[idw[w].key] # NULL
        /\ now >= marked_at[idw[w].key] + Seconds(cfg.ttl_seconds)

C38_MarkedOnlyIfApplied ==
    \A k \in IdemKeys :
        marked_at[k] # NULL
        => \E j \in 1..Len(handled_log) :
              handled_log[j].key = k /\ handled_log[j].outcome = "applied"


----------------------------------------------------------------------------
(* workers/automation_engine.py: one enabled automation whose trigger_type   *)
(* is the event's type, evaluated against the event's data.                   *)

\* Python values of the payload and of condition_config: None, a str (the
\* sequence of its characters) or a list of str
PyNone == [kind |-> "None", s |-> <<>>, items |-> {}]
PyStr(chars) == [kind |-> "str", s |-> chars, items |-> {}]
PyList(members) == [kind |-> "list", s |-> <<>>, items |-> members]

\* str(v)
str(v) == IF v.kind = "None" THEN <<"N", "o", "n", "e">> ELSE v.s

\* Python's `sub in text` for two str
Contains(sub, text) ==
    \E i \in 0..(Len(text) - Len(sub)) : SubSeq(text, i + 1, i + Len(sub)) = sub

\* dict.get(key, default)
get(data, key, default) == IF key \in DOMAIN data THEN data[key] ELSE default

\* Python's `x in container`: membership in a list, substring of a str, and
\* a TypeError ("raise") for None or for a non-str sought in a str
py_in(x, container) ==
    CASE container.kind = "list" -> IF x \in container.items THEN "yes" ELSE "no"
      [] container.kind = "str" /\ x.kind = "str" ->
             IF Contains(x.s, container.s) THEN "yes" ELSE "no"
      [] OTHER -> "raise"

\* one condition of _check_conditions, lines 89-108: "pass", "fail" or "raise"
check_condition(condition, data) ==
    LET config == condition.condition_config
    IN  CASE condition.condition_type = "field_equals" ->
                 IF get(data, config.field, PyNone) # config.value THEN "fail" ELSE "pass"
          [] condition.condition_type = "field_contains" ->
                 LET field_value == get(data, config.field, PyStr(<<>>))
                     found == py_in(config.value, PyStr(str(field_value)))
                 IN  IF found = "raise" THEN "raise"
                     ELSE IF found = "no" THEN "fail" ELSE "pass"
          [] condition.condition_type = "tag_has" ->
                 LET tags == get(data, "tags", PyList({}))
                     found == py_in(config.tag, tags)
                 IN  IF found = "raise" THEN "raise"
                     ELSE IF found = "no" THEN "fail" ELSE "pass"
          [] OTHER -> "pass"

\* _check_conditions: the conditions in order, the first that fails or
\* raises ends the check; no conditions allow execution
RECURSIVE check_conditions(_, _)
check_conditions(conditions, data) ==
    IF conditions = <<>> THEN "pass"
    ELSE LET first == check_condition(Head(conditions), data)
         IN  IF first = "pass" THEN check_conditions(Tail(conditions), data)
             ELSE first

\* the text values of the model
Qualified == <<"q">>
TextValues == {PyStr(Qualified), PyStr(<<"o", "n">>), PyStr(<<>>)}

\* the conditions a rule of the model is built from
Conditions ==
    {[condition_type |-> ty, condition_config |-> [field |-> "status", value |-> v]] :
        ty \in {"field_equals", "field_contains"}, v \in TextValues \cup {PyNone}}
    \cup {[condition_type |-> "tag_has", condition_config |-> [tag |-> PyStr(<<"v">>)]]}

ConditionLists ==
    UNION {[1..n -> Conditions] : n \in 0..MaxConditions}

\* the event payloads of the model: status and tags each absent, null or set
Payloads ==
    LET StatusValues == {PyNone, PyStr(Qualified), PyStr(<<"x">>)}
        TagValues == {PyNone, PyList({}), PyList({PyStr(<<"v">>)}), PyStr(<<"v", "i", "p">>)}
    IN  {<<>>}
        \cup {[f \in {"status"} |-> sv] : sv \in StatusValues}
        \cup {[f \in {"tags"} |-> tv] : tv \in TagValues}
        \cup {[f \in {"status", "tags"} |-> IF f = "status" THEN sv ELSE tv] :
                 sv \in StatusValues, tv \in TagValues}

InitAuto ==
    /\ EngineIdle
    /\ now = StartTime
    /\ ticks = 0
    /\ zset = {}
    /\ breaker = [n \in Names |-> NoKeys]
    /\ last = NoStep
    /\ rl = <<>>
    /\ allowed_log = <<>>
    /\ cbw = <<>>
    /\ streak = <<>>
    /\ cfg = <<>>
    /\ marker = <<>>
    /\ idw = <<>>
    /\ handled_log = <<>>
    /\ marked_at = <<>>
    /\ tz = <<>>
    /\ MoreIdle
    /\ \E conditions \in ConditionLists, data \in Payloads :
          auto = [pc |-> "queued", conditions |-> conditions, data |-> data,
                  checked |-> "none", executed |-> FALSE]

\* _process_event_async for the automation: _check_conditions, then
\* _execute_actions when it returned True; an exception is logged
ProcessEvent ==
    /\ auto.pc = "queued"
    /\ LET checked == check_conditions(auto.conditions, auto.data)
       IN  /\ auto' = [auto EXCEPT !.pc = "done", !.checked = checked,
                                   !.executed = (checked = "pass")]
           /\ last' = [op |-> "process_event", t |-> 0, kind |-> checked]
    /\ UNCHANGED <<now, ticks, coreVars, redisVars, limVars, cfg, moreVars, idemVars, tz>>

NextAuto == ProcessEvent

SpecAuto == InitAuto /\ [][NextAuto]_vars

----------------------------------------------------------------------------
(* Claims about the automation engine *)

\* what it is for a condition to hold against a payload: the field is there
\* and equal, the field is a text that has the value in it, the tag is one of
\* the payload's tags
Holds(condition, data) ==
    LET config == condition.condition_config
    IN  CASE condition.condition_type = "field_equals" ->
                 config.field \in DOMAIN data /\ data[config.field] = config.value
          [] condition.condition_type = "field_contains" ->
                 /\ config.field \in DOMAIN data
                 /\ data[config.field].kind = "str"
                 /\ config.value.kind = "str"
                 /\ Contains(config.value.s, data[config.field].s)
          [] condition.condition_type = "tag_has" ->
                 /\ "tags" \in DOMAIN data
                 /\ data["tags"].kind = "list"
                 /\ config.tag \in data["tags"].items

\* C17: the actions of a rule are executed only if every condition of the
\* rule holds against the event payload.
C17_FiresOnlyIfAllHold ==
    (auto.pc = "done" /\ auto.executed)
        => \A i \in DOMAIN auto.conditions : Holds(auto.conditions[i], auto.data)


----------------------------------------------------------------------------
(* workers/automation_engine.py: the automation as a scheduled_time one, run *)
(* by the periodic task as well as by an event of that type                  *)

\* _process_scheduled_automations_async for the automation: _execute_actions
\* with an empty payload, straight away
ProcessScheduledAutomations ==
    /\ auto.pc = "queued"
    /\ auto' = [auto EXCEPT !.pc = "done", !.data = <<>>, !.executed = TRUE]
    /\ last' = [op |-> "process_scheduled_automations", t |-> 0, kind |-> auto.checked]
    /\ UNCHANGED <<now, ticks, coreVars, redisVars, limVars, cfg, moreVars, idemVars, tz>>

NextSched == ProcessEvent \/ ProcessScheduledAutomations

SpecSched == InitAuto /\ [][NextSched]_vars

\* C39: whenever the actions of the automation were executed, the same run
\* had evaluated its conditions and found them true.
C39_ActionsOnlyAfterConditions ==
    auto.executed => auto.checked = "pass"

----------------------------------------------------------------------------
(* The timezone helper on its own: one question put to is_within_schedule    *)
(* and get_next_available_time.                                               *)

\* the hours of the day and the windows the questions are made of
TzHours == {8, 10, 17, 23}
TzWindows == {<<9, 17>>, <<0, 23>>, <<17, 9>>}
TzAllowedDays == {0..4, {}, {5}, 0..6}
TzBlackouts == SUBSET {1, 2}

InitTz ==
    /\ EngineIdle
    /\ now = StartTime
    /\ ticks = 0
    /\ zset = {}
    /\ breaker = [n \in Names |-> NoKeys]
    /\ last = NoStep
    /\ rl = <<>>
    /\ allowed_log = <<>>
    /\ cbw = <<>>
    /\ streak = <<>>
    /\ cfg = <<>>
    /\ marker = <<>>
    /\ idw = <<>>
    /\ handled_log = <<>>
    /\ marked_at = <<>>
    /\ auto = <<>>
    /\ MoreIdle
    /\ \E d \in 0..MaxDay, h \in TzHours, window \in TzWindows,
          allowed_days \in TzAllowedDays, blackout_dates \in TzBlackouts,
          timedelta_ok \in BOOLEAN :
          tz = [pc |-> "asked", current_time |-> Days(d) + Hours(h),
                start_hour |-> window[1], end_hour |-> window[2],
                allowed_days |-> allowed_days, blackout_dates |-> blackout_dates,
                timedelta_ok |-> timedelta_ok,
                within |-> FALSE, next_time |-> [raised |-> FALSE, value |-> NULL]]

\* the two calls the scheduler makes, lines 69-83: is_within_schedule, and
\* get_next_available_time when the answer is no
AskSchedule ==
    /\ tz.pc = "asked"
    /\ LET within == is_within_schedule(tz.current_time, tz.start_hour, tz.end_hour,
                                        tz.allowed_days, tz.blackout_dates)
       IN  /\ tz' = [tz EXCEPT
                       !.pc = "answered",
                       !.within = within,
                       !.next_time =
                           IF within THEN @
                           ELSE get_next_available_time(tz.current_time, tz.start_hour,
                                                        tz.end_hour, tz.allowed_days,
                                                        tz.timedelta_ok)]
           /\ last' = [op |-> "ask_schedule", t |-> 0,
                       kind |-> IF within THEN "within" ELSE "outside"]
    /\ UNCHANGED <<now, ticks, coreVars, redisVars, limVars, cfg, moreVars, idemVars, auto>>

NextTz == AskSchedule

SpecTz == InitTz /\ [][NextTz]_vars

----------------------------------------------------------------------------
(* Claims about the send window *)

\* C18: is_within_schedule answers yes exactly when the local weekday is an
\* allowed day, the local date is no blackout date and the local hour lies in
\* [start_hour, end_hour).
C18_WithinSchedule ==
    tz.pc = "answered"
        => (tz.within
              <=> /\ (tz.current_time \div Days(1)) % 7 \in tz.allowed_days
                  /\ (tz.current_time \div Days(1)) \notin tz.blackout_dates
                  /\ \E h \in tz.start_hour..(tz.end_hour - 1) :
                        /\ Hours(h) <= tz.current_time % Days(1)
                        /\ tz.current_time % Days(1) < Hours(h + 1))

\* Tuesday 10:00 with the window 9-17 on Monday to Friday is in
C18_Witness ==
    /\ tz.pc = "answered"
    /\ tz.current_time = Days(1) + Hours(10)
    /\ tz.start_hour = 9 /\ tz.end_hour = 17 /\ tz.allowed_days = 0..4
    /\ tz.blackout_dates = {}
    /\ tz.within

\* the days from today on, within the horizon, that offer a slot to an instant
\* outside the window: an allowed weekday, no blackout date, and today only
\* before start_hour
SlotDays(t, start_hour, end_hour, allowed_days, blackout_dates) ==
    {d \in 0..(HORIZON_DAYS - 1) :
        /\ start_hour < end_hour
        /\ ((t \div Days(1)) + d) % 7 \in allowed_days
        /\ ((t \div Days(1)) + d) \notin blackout_dates
        /\ (d = 0 => t % Days(1) < Hours(start_hour))}

\* C19: for an instant outside the window that has a slot within the horizon,
\* the next time computed is start_hour on the nearest day offering a slot,
\* and is_within_schedule holds there.
C19_NextSlot ==
    LET slots == SlotDays(tz.current_time, tz.start_hour, tz.end_hour,
                          tz.allowed_days, tz.blackout_dates)
    IN  (tz.pc = "answered" /\ ~tz.within /\ slots # {})
            => LET d == CHOOSE x \in slots : \A y \in slots : x <= y
               IN  /\ ~tz.next_time.raised
                   /\ tz.next_time.value
                         = Days((tz.current_time \div Days(1)) + d) + Hours(tz.start_hour)
                   /\ is_within_schedule(tz.next_time.value, tz.start_hour, tz.end_hour,
                                         tz.allowed_days, tz.blackout_dates)


\* the instant the walk looks at in its round k: the asked instant, then
\* start_hour of each following day
WalkInstant(k) ==
    IF k = 0 THEN tz.current_time
    ELSE replace_hms(tz.current_time + Days(k), tz.start_hour)

\* none of the 14 rounds of the walk finds a slot
NoSlotInWalk ==
    \A k \in 0..(HORIZON_DAYS - 1) :
        ~( /\ weekday(WalkInstant(k)) \in tz.allowed_days
           /\ ( hour(WalkInstant(k)) < tz.start_hour
                 \/ hour(WalkInstant(k)) < tz.end_hour ) )

\* C32: when the 14-day walk finds no slot, get_next_available_time returns
\* the instant it was asked for plus one day.
C32_FallbackOneDay ==
    ( tz.pc = "answered" /\ ~tz.within /\ NoSlotInWalk )
    => tz.next_time = [raised |-> FALSE, value |-> tz.current_time + Days(1)]

----------------------------------------------------------------------------
(* The scheduler over a campaign that has a schedule rule *)

\* the schedule rules and scan times of the model: the default rule (9-17,
\* Monday to Friday) with and without Tuesday as a blackout date, scanned on
\* a Tuesday and on a Saturday
WinRules ==
    {[present |-> TRUE, start_hour |-> 9, end_hour |-> 17, days_allowed |-> 0..4,
      blackout_dates |-> b] : b \in {{}, {1}}}
WinInstants == {Days(d) + Hours(h) : d \in {1, 5}, h \in {8, 10, 17}}

InitWin ==
    /\ ticks = 0
    /\ target = [x \in 1..NumTargets |-> NewTarget]
    /\ dispatchQ = [x \in 1..NumTargets |-> 0]
    /\ sendQ = [x \in 1..NumTargets |-> 0]
    /\ sched = [i \in Schedulers |-> IdleRun]
    /\ zset = {}
    /\ breaker = [n \in Names |-> NoKeys]
    /\ calls = <<>>
    /\ processed = {}
    /\ claims = [x \in 1..NumTargets |-> 0]
    /\ deferred = {}
    /\ last = NoStep
    /\ rl = <<>>
    /\ allowed_log = <<>>
    /\ cbw = <<>>
    /\ streak = <<>>
    /\ cfg = [limit |-> DISPATCH_LIMIT, window_seconds |-> DISPATCH_WINDOW_SECONDS,
              failure_threshold |-> FAILURE_THRESHOLD,
              recovery_timeout |-> RECOVERY_TIMEOUT]
    /\ marker = <<>>
    /\ idw = <<>>
    /\ handled_log = <<>>
    /\ marked_at = <<>>
    /\ auto = <<>>
    /\ MoreIdle
    /\ now \in WinInstants
    /\ \E schedule_rule \in WinRules :
          campaign = [status |-> "running", channel |-> "sms",
                      retry_strategy |-> [max_attempts |-> 3, delays_minutes |-> <<2>>],
                      schedule_rule |-> schedule_rule]
    /\ \E timedelta_ok \in BOOLEAN : tz = [timedelta_ok |-> timedelta_ok]

NextWin ==
    \/ Tick
    \/ \E i \in Schedulers : SchedulerSelect(i)
    \/ \E i \in Schedulers : SchedulerProcessTarget(i)
    \/ \E i \in Schedulers : SchedulerCommit(i)

SpecWin == InitWin /\ [][NextWin]_vars

\* C20: a scan that finds a due target of a running campaign outside the send
\* window enqueues no dispatch, keeps status and attempt_count, and moves
\* next_attempt_at to an instant later than the scan.
C20_OutsideWindowReschedules ==
    [][\A t \in Targets :
          ( /\ last'.op = "schedule" /\ last'.t = t
            /\ last'.kind # "skipped"
            /\ campaign.schedule_rule.present
            /\ ~is_within_schedule(now, campaign.schedule_rule.start_hour,
                                   campaign.schedule_rule.end_hour,
                                   campaign.schedule_rule.days_allowed,
                                   campaign.schedule_rule.blackout_dates) )
          => /\ dispatchQ' = dispatchQ
             /\ target'[t].status = target[t].status
             /\ target'[t].attempt_count = target[t].attempt_count
             /\ target'[t].next_attempt_at > now]_vars


\* C22: a dispatch that hands the target to its channel sender counts one
\* attempt, stamps last_attempt_at with the dispatch time, enqueues the
\* sender and leaves the status as it was (processing stays processing);
\* a target becomes completed only in a step of the channel sender or of the
\* provider's webhook.
C22_HandOffCountsOnce ==
    [][\A t \in Targets :
          /\ ( last'.op = "dispatch" /\ last'.t = t /\ last'.kind = "sent" )
             => /\ target'[t].attempt_count = target[t].attempt_count + 1
                /\ target'[t].last_attempt_at = now
                /\ target'[t].status = target[t].status
                /\ sendQ'[t] = sendQ[t] + 1
          /\ ( target'[t].status = "completed" /\ target[t].status # "completed" )
             => last'.op \in {"send", "webhook"} /\ last'.t = t]_vars

C22_Witness ==
    /\ last.op = "dispatch"
    /\ last.kind = "sent"
    /\ target[last.t].status = "processing"
    /\ target[last.t].attempt_count = 1
    /\ target[last.t].last_attempt_at = now
    /\ sendQ[last.t] = 1

\* C23: a provider request that failed is recorded as a failure of the
\* integration's breaker: after a sender step whose request timed out or was
\* rejected, the breaker's last failure is that instant and its failure
\* counter is not zero.
C23_FailedRequestRecorded ==
    \A t \in Targets :
        ( last.op = "send" /\ last.t = t /\ last.kind \in {"retryable", "terminal"} )
        => LET keys == breaker[BreakerOf(campaign.channel)]
           IN  /\ keys.last_failure = now
               /\ failures_at(keys, now) > 0

\* C37: the call-status webhook maps every status value to the target's
\* status: busy to retrying with next_attempt_at 30 minutes on, no_answer to
\* retrying with 120 minutes on, voicemail and completed to completed, and
\* every other value to failed.
C37_VoiceStatusMapping ==
    [][\A c \in DOMAIN calls, status \in VoiceStatuses :
          ( <<c, status>> \in processed' /\ <<c, status>> \notin processed )
          => LET row == target'[calls[c]]
             IN  CASE status = "busy" ->
                         row.status = "retrying" /\ row.next_attempt_at = now + Minutes(30)
                   [] status = "no_answer" ->
                         row.status = "retrying" /\ row.next_attempt_at = now + Minutes(120)
                   [] status \in {"voicemail", "completed"} ->
                         /\ row.status = "completed"
                         /\ row.next_attempt_at = target[calls[c]].next_attempt_at
                   [] OTHER ->
                         /\ row.status = "failed"
                         /\ row.next_attempt_at = target[calls[c]].next_attempt_at]_vars

C37_Witness ==
    /\ last.op = "webhook"
    /\ \E c \in DOMAIN calls :
          /\ <<c, "no_answer">> \in processed
          /\ target[calls[c]].status = "retrying"
          /\ target[calls[c]].next_attempt_at = now + Minutes(120)

\* C34: the hand-off of the scheduler is one step for the dispatcher: the
\* dispatcher never runs for a target while the scan that enqueued its task
\* has not yet committed the target's transition to processing, so the row
\* it loads is the committed one.
C34_HandOffAtomic ==
    [][\A t \in Targets :
          ( last'.op = "dispatch" /\ last'.t = t )
          => /\ ~\E i \in Schedulers :
                    sched[i].pc = "commit" /\ Head(sched[i].batch) = t
             /\ target[t].status \notin {"pending", "retrying"}]_vars

\* C35: a dispatch task that finds its target in a status other than
\* processing enqueues no channel sender and leaves attempt_count alone.
C35_OnlyProcessingSent ==
    [][\A t \in Targets :
          ( last'.op = "dispatch" /\ last'.t = t /\ target[t].status # "processing" )
          => /\ sendQ'[t] = sendQ[t]
             /\ target'[t].attempt_count = target[t].attempt_count]_vars

----------------------------------------------------------------------------
(* The engine over a campaign whose retry strategy allows a single attempt *)

InitCap ==
    /\ now = StartTime
    /\ ticks = 0
    /\ target = [x \in 1..NumTargets |-> NewTarget]
    /\ \E channel \in CampaignChannels :
          campaign = [status |-> "running", channel |-> channel,
                      retry_strategy |-> [max_attempts |-> 1, delays_minutes |-> <<2>>],
                      schedule_rule |-> NoRule]
    /\ dispatchQ = [x \in 1..NumTargets |-> 0]
    /\ sendQ = [x \in 1..NumTargets |-> 0]
    /\ sched = [i \in Schedulers |-> IdleRun]
    /\ zset = {}
    /\ breaker = [n \in Names |-> NoKeys]
    /\ calls = <<>>
    /\ processed = {}
    /\ claims = [x \in 1..NumTargets |-> 0]
    /\ deferred = {}
    /\ last = NoStep
    /\ rl = <<>>
    /\ allowed_log = <<>>
    /\ cbw = <<>>
    /\ streak = <<>>
    /\ ExtIdle
    /\ cfg = [limit |-> DISPATCH_LIMIT, window_seconds |-> DISPATCH_WINDOW_SECONDS,
              failure_threshold |-> FAILURE_THRESHOLD,
              recovery_timeout |-> RECOVERY_TIMEOUT]

SpecCap == InitCap /\ [][Next]_vars

\* C33: no target is ever counted for more attempts than the campaign's
\* max_attempts.
C33_AttemptsCapped ==
    \A t \in Targets :
        target[t].attempt_count <= max_attempts_of(campaign.retry_strategy)

----------------------------------------------------------------------------
(* One scan over a batch of several targets: campaigns that are not running, *)
(* rows that are gone, errors in the middle of the batch                      *)

OrphanKinds == {"none", "campaign", "lead", "tenant"}

InitScan ==
    /\ now = StartTime
    /\ ticks = 0
    /\ target = [x \in 1..NumScanTargets |-> NewTarget]
    /\ \E status \in {"running", "paused"} :
          campaign = [status |-> status, channel |-> "sms",
                      retry_strategy |-> [max_attempts |-> 3, delays_minutes |-> <<2>>],
                      schedule_rule |-> NoRule]
    /\ dispatchQ = [x \in 1..NumScanTargets |-> 0]
    /\ sendQ = [x \in 1..NumScanTargets |-> 0]
    /\ sched = [i \in Schedulers |-> IdleRun]
    /\ zset = {}
    /\ breaker = [n \in Names |-> NoKeys]
    /\ calls = <<>>
    /\ processed = {}
    /\ claims = [x \in 1..NumScanTargets |-> 0]
    /\ deferred = {}
    /\ last = NoStep
    /\ rl = <<>>
    /\ allowed_log = <<>>
    /\ cbw = <<>>
    /\ streak = <<>>
    /\ \E batch_limit \in {1, BATCH_LIMIT} :
          cfg = [limit |-> DISPATCH_LIMIT, window_seconds |-> DISPATCH_WINDOW_SECONDS,
                 failure_threshold |-> FAILURE_THRESHOLD,
                 recovery_timeout |-> RECOVERY_TIMEOUT, batch_limit |-> batch_limit]
    /\ marker = <<>>
    /\ idw = <<>>
    /\ handled_log = <<>>
    /\ marked_at = <<>>
    /\ auto = <<>>
    /\ tz = <<>>
    /\ orphan \in [1..NumScanTargets -> OrphanKinds]
    /\ bus = <<>>
    /\ act = <<>>

NextScan ==
    \/ PauseCampaign
    \/ StartCampaign
    \/ \E i \in Schedulers : SchedulerSelect(i)
    \/ \E i \in Schedulers : SchedulerProcessTarget(i)
    \/ \E i \in Schedulers : SchedulerCommit(i)
    \/ \E t \in Targets : DispatchCampaignTarget(t)

SpecScan == InitScan /\ [][NextScan]_vars

\* the campaign status a scheduler run works with for its next target
SeenStatus(i) ==
    IF sched[i].campaign_status = "unloaded" THEN campaign.status
    ELSE sched[i].campaign_status

C31_OnlyDueSelected ==
    [][\A i \in Schedulers :
          /\ ( sched[i].pc = "idle" /\ sched'[i].pc # "idle" )
             => /\ \A k \in 1..Len(sched'[i].batch) :
                      LET row == target[sched'[i].batch[k]]
                      IN  /\ row.status \in {"pending", "retrying"}
                          /\ row.next_attempt_at # NULL
                          /\ row.next_attempt_at <= now
                /\ \A k, l \in 1..Len(sched'[i].batch) :
                      sched'[i].batch[k] = sched'[i].batch[l] => k = l
                /\ Len(sched'[i].batch) <= ScanLimit
                /\ ScanLimit <= BATCH_LIMIT
          /\ ( sched[i].pc # "idle" /\ sched'[i] # sched[i] )
             => /\ sched'[i].batch \in {sched[i].batch, Tail(sched[i].batch), <<>>}
                /\ \A t \in Targets :
                      dispatchQ'[t] > dispatchQ[t] => t = Head(sched[i].batch)]_vars

\* a scan with limit 1 over two due targets took one of them
C31_Witness ==
    \E i \in Schedulers :
        /\ ScanLimit = 1
        /\ sched[i].pc = "loop"
        /\ Len(sched[i].batch) = 1
        /\ Cardinality(DueTargets(target, now)) = 2
        /\ last.op = "select"

\* C25: after an error on an earlier target of the batch, the scan still
\* processes every later target that is eligible (its rows are there, its
\* campaign is running): the step over it enqueues its dispatch, or fails
\* on an error of its own hand-off.
C25_BatchGoesOn ==
    [][\A i \in Schedulers :
          ( /\ sched[i].pc = "loop"
            /\ sched[i].expired
            /\ sched'[i] # sched[i]
            /\ last'.op = "schedule"
            /\ Gone(Head(sched[i].batch)) = "none"
            /\ SeenStatus(i) = "running" )
          => last'.kind \in {"enqueued", "error"}]_vars

\* C26: no step of the scheduler or the dispatcher over a target whose
\* campaign, lead or tenant is gone changes the target's status,
\* attempt_count or next_attempt_at, or enqueues a channel sender task.
C26_MissingRowsUntouched ==
    [][\A t \in Targets :
          ( /\ Gone(t) # "none"
            /\ last'.op \in {"schedule", "claim", "dispatch"}
            /\ last'.t = t )
          => /\ target'[t].status = target[t].status
             /\ target'[t].attempt_count = target[t].attempt_count
             /\ target'[t].next_attempt_at = target[t].next_attempt_at
             /\ sendQ' = sendQ]_vars

----------------------------------------------------------------------------
(* workers/event_bus.py: EventBus.publish *)

EVENT_TYPES ==
    {"lead_created", "lead_updated", "message_received", "campaign_completed",
     "campaign_started", "voice_failed", "voice_completed", "scheduled_time",
     "email_opened", "email_clicked", "sms_delivered", "whatsapp_received"}

\* a publish that checks nothing
publish_any(queue, event_type, tenant_id, data, sent) ==
    IF ~sent
    THEN [queue |-> queue, result |-> "raised"]
    ELSE [queue |-> Append(queue, [name |-> "app.workers.automation_engine.process_event",
                                   args |-> <<event_type, tenant_id, data>>]),
          result |-> "published"]

\* EventBus.publish on the automation queue: an unknown event type is logged
\* and dropped; a known one is sent as one process_event task (`sent` is
\* whether the broker took it; send_task raises otherwise)
publish(queue, event_type, tenant_id, data, sent) ==
    IF event_type \notin EVENT_TYPES
    THEN [queue |-> queue, result |-> "ignored"]
    ELSE IF ~sent
    THEN [queue |-> queue, result |-> "raised"]
    ELSE [queue |-> Append(queue, [name |-> "app.workers.automation_engine.process_event",
                                   args |-> <<event_type, tenant_id, data>>]),
          result |-> "published"]

\* the publish calls of the model: two known event types and one that is not
\* in EVENT_TYPES, two tenants, two payloads
BusEventTypes == {"lead_created", "voice_failed", "lead_deleted"}
BusTenants == {"tenant-1", "tenant-2"}
BusPayloads == {<<>>, [status |-> PyStr(Qualified)]}

InitBus ==
    /\ EngineIdle
    /\ now = StartTime
    /\ ticks = 0
    /\ zset = {}
    /\ breaker = [n \in Names |-> NoKeys]
    /\ last = NoStep
    /\ rl = <<>>
    /\ allowed_log = <<>>
    /\ cbw = <<>>
    /\ streak = <<>>
    /\ cfg = <<>>
    /\ marker = <<>>
    /\ idw = <<>>
    /\ handled_log = <<>>
    /\ marked_at = <<>>
    /\ auto = <<>>
    /\ tz = <<>>
    /\ orphan = <<>>
    /\ act = <<>>
    /\ bus = [published |-> <<>>, automation |-> <<>>]

Publish(event_type, tenant_id, data) ==
    /\ Len(bus.published) < MaxPublished
    /\ \E sent \in BOOLEAN :
          LET done == publish(bus.automation, event_type, tenant_id, data, sent)
          IN  /\ bus' = [published |-> Append(bus.published,
                                              [event_type |-> event_type,
                                               tenant_id |-> tenant_id, data |-> data,
                                               result |-> done.result]),
                         automation |-> done.queue]
              /\ last' = [op |-> "publish", t |-> 0, kind |-> done.result]
    /\ UNCHANGED <<now, ticks, coreVars, redisVars, limVars, cfg, idemVars, auto, tz,
                   orphan, act>>

NextBus ==
    \E event_type \in BusEventTypes, tenant_id \in BusTenants, data \in BusPayloads :
        Publish(event_type, tenant_id, data)

SpecBus == InitBus /\ [][NextBus]_vars

\* C27: a publish with an event type outside EVENT_TYPES returns without
\* enqueuing anything; a publish with a known event type that the broker
\* takes appends exactly one process_event task whose arguments are the
\* event type, tenant id and payload of the call, and leaves the tasks
\* already queued as they are.
C27_PublishKnownOnly ==
    [][Len(bus'.published) = Len(bus.published) + 1 =>
          LET call == bus'.published[Len(bus'.published)]
          IN  IF call.event_type \notin EVENT_TYPES
              THEN bus'.automation = bus.automation /\ call.result = "ignored"
              ELSE \/ call.result = "raised" /\ bus'.automation = bus.automation
                   \/ /\ call.result = "published"
                      /\ bus'.automation =
                            Append(bus.automation,
                                   [name |-> "app.workers.automation_engine.process_event",
                                    args |-> <<call.event_type, call.tenant_id,
                                               call.data>>])]_vars

C27_Witness ==
    /\ Len(bus.published) = 2
    /\ bus.published[1].event_type = "lead_deleted"
    /\ bus.published[2].event_type = "voice_failed"
    /\ bus.published[2].result = "published"
    /\ Len(bus.automation) = 1
    /\ bus.automation[1].args[1] = "voice_failed"

----------------------------------------------------------------------------
(* workers/automation_engine.py: _execute_actions *)

ActionTypes == {"send_email", "send_sms", "update_lead"}
ActionDelays == {0, 2}

\* the ordered action lists of the model (order_by AutomationAction.order)
ActionLists ==
    UNION {[1..n -> [action_type : ActionTypes, delay_seconds : ActionDelays]] :
              n \in 1..MaxActions}

\* the sender task of an action type
task_of(action_type) ==
    IF action_type = "send_email" THEN "app.integrations.brevo.email.send_email"
    ELSE "app.integrations.brevo.sms.send_sms"

\* whether a statement of the action's branch can raise: send_task, or
\* db.get and db.commit of update_lead when the event carries a lead_id
can_raise(action, has_lead) == action.action_type # "update_lead" \/ has_lead

\* lines 132-169 for one action at instant t: what it puts in the broker
\* (with the instant the countdown ends) and whether it updates the lead;
\* nothing when a statement raised
execute_action(action, has_lead, t, raises) ==
    IF raises
    THEN [raised |-> TRUE, tasks |-> {}, updated |-> FALSE]
    ELSE IF action.action_type \in {"send_email", "send_sms"}
    THEN [raised |-> FALSE,
          tasks |-> {[name |-> task_of(action.action_type),
                      eta |-> t + Seconds(action.delay_seconds)]},
          updated |-> FALSE]
    ELSE [raised |-> FALSE, tasks |-> {}, updated |-> has_lead]

\* a loop that gives up at the first action that raised
next_action_giving_up(pc, n, raised) == IF raised THEN n + 1 ELSE pc + 1

\* lines 131-172: the try/except is inside the for loop, so the loop goes on
\* to the next action whether or not this one raised
next_action(pc, n, raised) == pc + 1

InitExec ==
    /\ EngineIdle
    /\ now = StartTime
    /\ ticks = 0
    /\ zset = {}
    /\ breaker = [n \in Names |-> NoKeys]
    /\ last = NoStep
    /\ rl = <<>>
    /\ allowed_log = <<>>
    /\ cbw = <<>>
    /\ streak = <<>>
    /\ cfg = <<>>
    /\ marker = <<>>
    /\ idw = <<>>
    /\ handled_log = <<>>
    /\ marked_at = <<>>
    /\ auto = <<>>
    /\ tz = <<>>
    /\ orphan = <<>>
    /\ bus = <<>>
    /\ \E actions \in ActionLists, has_lead \in BOOLEAN :
          act = [pc |-> 1, actions |-> actions, has_lead |-> has_lead,
                 evaluated_at |-> StartTime, attempted |-> <<>>, queue |-> {},
                 effects |-> {}, lead_status |-> "new"]

ExecTick ==
    /\ ticks < MaxExecTicks
    /\ now' = now + Seconds(1)
    /\ ticks' = ticks + 1
    /\ last' = [op |-> "tick", t |-> 0, kind |-> "none"]
    /\ UNCHANGED <<coreVars, redisVars, limVars, cfg, idemVars, auto, tz, moreVars>>

\* one round of the for loop of _execute_actions
ExecuteAction ==
    /\ act.pc <= Len(act.actions)
    /\ LET action == act.actions[act.pc]
       IN  \E raises \in (IF can_raise(action, act.has_lead) THEN BOOLEAN ELSE {FALSE}) :
             LET done == execute_action(action, act.has_lead, now, raises)
             IN  /\ act' = [act EXCEPT
                       !.pc = next_action(act.pc, Len(act.actions), done.raised),
                       !.attempted = Append(@, [index |-> act.pc, raised |-> done.raised]),
                       !.queue = @ \cup {[index |-> act.pc, name |-> task.name,
                                          eta |-> task.eta] : task \in done.tasks},
                       !.effects = IF done.updated
                                   THEN @ \cup {[index |-> act.pc, at |-> now]} ELSE @,
                       !.lead_status = IF done.updated THEN "contacted" ELSE @]
                 /\ last' = [op |-> "execute_action", t |-> act.pc,
                             kind |-> IF done.raised THEN "raised" ELSE "executed"]
    /\ UNCHANGED <<now, ticks, coreVars, redisVars, limVars, cfg, idemVars, auto, tz,
                   orphan, bus>>

\* a worker of the dispatcher queue runs a sender task once its countdown is over
RunTask ==
    /\ \E task \in act.queue :
          /\ task.eta <= now
          /\ act' = [act EXCEPT !.queue = @ \ {task},
                                !.effects = @ \cup {[index |-> task.index, at |-> now]}]
          /\ last' = [op |-> "run_task", t |-> task.index, kind |-> task.name]
    /\ UNCHANGED <<now, ticks, coreVars, redisVars, limVars, cfg, idemVars, auto, tz,
                   orphan, bus>>

NextExec == ExecTick \/ ExecuteAction \/ RunTask

SpecExec == InitExec /\ [][NextExec]_vars

C29_NotBeforeDelay ==
    \A e \in act.effects :
        e.at >= act.evaluated_at + Seconds(act.actions[e.index].delay_seconds)

----------------------------------------------------------------------------
(* Periodic scans under fairness: beat starts process_pending_targets every  *)
(* 30 seconds, a started run goes through its batch, and the broker does not *)
(* refuse a task for ever                                                     *)

NextFair ==
    \/ \E i \in Schedulers : SchedulerSelect(i)
    \/ \E i \in Schedulers : SchedulerProcessTarget(i)
    \/ \E i \in Schedulers : SchedulerCommit(i)
    \/ \E t \in Targets : DispatchCampaignTarget(t)

Fairness ==
    \A i \in Schedulers :
        /\ WF_vars(SchedulerSelect(i))
        /\ WF_vars(SchedulerProcessTarget(i))
        /\ WF_vars(SchedulerCommit(i))
        /\ SF_vars(SchedulerProcessTarget(i) /\ last'.kind = "enqueued")

SpecFair == InitScan /\ [][NextFair]_vars /\ Fairness

\* a due target the scan would hand off when it came to it
Eligible(t) ==
    /\ t \in DueTargets(target, now)
    /\ Gone(t) \notin {"campaign", "lead"}
    /\ campaign.status = "running"

\* C36: under fair scans every due target of a running campaign whose rows
\* are there is eventually handed to the dispatcher (a dispatch task of its
\* current round is enqueued), however many other due targets the scans skip.
C36_DueEventuallyHandedOff ==
    \A t \in 1..NumScanTargets : Eligible(t) ~> (claims[t] > 0)

====
